---- MODULE Spec2Model ----
(***************************************************************************)
(* A model of the atlas backend: the DummyWorkflow / ChainedDummyWorkflow   *)
(* definitions (backend/workflows/dummy.py), their activities               *)
(* (backend/activities/dummy.py), the Temporal client helpers              *)
(* (backend/temporal/client.py), the HTTP routes (backend/api/routes:       *)
(* workflows, health, core dependencies), the worker process               *)
(* (backend/workers/worker.py) and the database session manager            *)
(* (backend/db/connection.py), run on the durable workflow                  *)
(* orchestration core that spec.md describes (sections 3 to 7).  The core   *)
(* itself is the third-party engine the repository calls; its definitions   *)
(* here follow spec.md.                                                     *)
(***************************************************************************)
EXTENDS Integers, Sequences, FiniteSets, TLC

VARIABLES
    wf,        \* the WorkflowRun driven by the engine (spec.md section 3)
    journal,   \* its History Journal: the sequence of HistoryEvents
    commands,  \* the commands the workflow code issued in forward execution
    task,      \* the ActivityTask the run is suspended on
    handler,   \* the environment: how each activity handler behaves
    now,       \* the engine's clock, in seconds
    runs,      \* the WorkflowRuns the engine holds for the HTTP layer
    requests,  \* the HTTP requests received, each with its handler's position
    lease,     \* the holder of the run's execution lease, or "free"
    drivers,   \* each worker's local state while it drives the run
    pending,   \* the Task Queue's pending ActivityTasks, in FIFO order
    leased,    \* the dequeued tasks under a live lease, each with its poller
    acked,     \* the tasks whose completion was acknowledged
    pollers,   \* each polling worker: idle, working on a task, or crashed
    counters,  \* how many tasks were enqueued and how many crashes happened
    settings,  \* backend.config settings read by the Temporal client helpers
    client,    \* the calls made on temporalio's Client, in order
    invocations, \* the start_workflow invocations: queued, returned or raised
    sessions,  \* the database sessions opened through get_db_session
    worker,    \* run_worker: its tasks, shutdown event and signal handlers
    discovery  \* discover_workflows: the package scanned and the list built

vars ==
    <<wf, journal, commands, task, handler, now, runs, requests,
      lease, drivers, pending, leased, acked, pollers, counters,
      settings, client, invocations, sessions, worker, discovery>>

engineVars == <<wf, journal, commands, task, handler, now>>

apiVars == <<runs, requests>>

leaseVars == <<lease, drivers>>

queueVars == <<pending, leased, acked, pollers, counters>>

clientVars == <<settings, client, invocations, sessions>>

workerVars == <<worker, discovery>>

\* What the actions of the workflow engine leave alone.
outsideEngine == <<apiVars, leaseVars, queueVars, clientVars, workerVars>>

\* What the actions of the HTTP layer leave alone.
outsideApi ==
    <<engineVars, leaseVars, queueVars, settings, invocations, sessions,
      workerVars>>

\* What the actions on the run's execution lease leave alone.
outsideLease ==
    <<wf, commands, task, handler, now, apiVars, queueVars, clientVars,
      workerVars>>

\* What the actions of the Task Queue Dispatcher leave alone.
outsideQueue == <<engineVars, apiVars, leaseVars, clientVars, workerVars>>

(***************************************************************************)
(* Bounds of the model.                                                    *)
(***************************************************************************)
MaxTime == 4
MaxFailures == 2

MaxAttempt == 4

MaxPolicyAttempts == 3

MaxRequests == 2

MaxEvents == 4

MaxTasks == 2

MaxCrashes == 2

(***************************************************************************)
(* Optional[str]: None is the empty tuple, a string s is <<s>>.             *)
(***************************************************************************)
None == <<>>

Some(s) == <<s>>

\* Python truthiness of a str | None value: None and "" are falsy.
Truthy(m) == m # None /\ m[1] # ""

\* Python's `m or default` for a str | None value.
OrElse(m, default) == IF Truthy(m) THEN m[1] ELSE default

Digit(d) ==
    CASE d = 0 -> "0" [] d = 1 -> "1" [] d = 2 -> "2" [] d = 3 -> "3"
      [] d = 4 -> "4" [] d = 5 -> "5" [] d = 6 -> "6" [] d = 7 -> "7"
      [] d = 8 -> "8" [] d = 9 -> "9"

RECURSIVE IntToStr(_)
\* str(n) of a natural number, as an f-string formats it.
IntToStr(n) == IF n < 10 THEN Digit(n) ELSE IntToStr(n \div 10) \o Digit(n % 10)

Messages == {None, Some(""), Some("hi")}

WorkflowIds == {"test-workflow-id", "dummy-sync-hi"}

Activities == {"get_current_time", "echo_message", "simulate_work"}

(***************************************************************************)
(* backend/activities/dummy.py                                             *)
(***************************************************************************)
\* datetime.now(UTC).isoformat(): the wall clock at the time of the call.
get_current_time(clock) == clock

echo_message_same(message) == message

echo_message(message) == "ECHO: " \o message

simulate_work(duration_seconds) ==
    "Work completed after " \o IntToStr(duration_seconds) \o " seconds"

\* time.sleep(duration_seconds): how long an attempt of the handler runs
\* (a child DummyWorkflow runs simulate_work(3)).
HandlerDuration(activity, input) ==
    CASE activity = "simulate_work" -> input[1]
      [] activity = "DummyWorkflow" -> 3
      [] OTHER -> 0

HandlerResult(activity, input, clock) ==
    CASE activity = "get_current_time" -> get_current_time(clock)
      [] activity = "echo_message" -> echo_message(input[1])
      [] activity = "simulate_work" -> simulate_work(input[1])

(***************************************************************************)
(* RetryPolicy (spec.md section 3).  The workflow code names some of the    *)
(* four fields and leaves the others to the engine's defaults.              *)
(***************************************************************************)
DefaultInitialInterval == 1

DefaultBackoffCoefficient == 2

DefaultMaximumAttempts == 0

\* The engine caps the delay at 100 initial intervals when no cap is given.
DefaultMaximumInterval(initial_interval) == 100 * initial_interval

RetryPolicy(maximum_attempts, initial_interval, backoff_coefficient, maximum_interval) ==
    [maximum_attempts |-> maximum_attempts,
     initial_interval |-> initial_interval,
     backoff_coefficient |-> backoff_coefficient,
     maximum_interval |-> maximum_interval]

\* RetryPolicy(maximum_attempts=4, initial_interval=1s)
GetCurrentTimePolicy_Four ==
    RetryPolicy(4, 1, DefaultBackoffCoefficient, DefaultMaximumInterval(1))

\* dummy.py 46-49: RetryPolicy(maximum_attempts=3, initial_interval=1s)
GetCurrentTimePolicy ==
    RetryPolicy(3, 1, DefaultBackoffCoefficient, DefaultMaximumInterval(1))

\* dummy.py 61-64: RetryPolicy(maximum_attempts=3, initial_interval=1s)
EchoMessagePolicy ==
    RetryPolicy(3, 1, DefaultBackoffCoefficient, DefaultMaximumInterval(1))

\* RetryPolicy(maximum_attempts=3, initial_interval=1s, maximum_interval=10s)
SimulateWorkPolicy_Three == RetryPolicy(3, 1, DefaultBackoffCoefficient, 10)

\* RetryPolicy(maximum_attempts=1, initial_interval=1s, maximum_interval=10s)
SimulateWorkPolicy_One == RetryPolicy(1, 1, DefaultBackoffCoefficient, 10)

\* dummy.py 73-77: RetryPolicy(maximum_attempts=2, initial_interval=1s,
\* maximum_interval=10s)
SimulateWorkPolicy == RetryPolicy(2, 1, DefaultBackoffCoefficient, 10)

\* RetryPolicy() with no maximum_attempts: the default, unlimited
ChildWorkflowPolicy_Default ==
    RetryPolicy(DefaultMaximumAttempts, DefaultInitialInterval,
                DefaultBackoffCoefficient,
                DefaultMaximumInterval(DefaultInitialInterval))

\* dummy.py 116: RetryPolicy(maximum_attempts=1)
ChildWorkflowPolicy ==
    RetryPolicy(1, DefaultInitialInterval, DefaultBackoffCoefficient,
                DefaultMaximumInterval(DefaultInitialInterval))

(***************************************************************************)
(* Commands a workflow issues (spec.md 4.1).                                *)
(***************************************************************************)
ScheduleActivity(activity, input, start_to_close_timeout, retry_policy) ==
    [kind |-> "ScheduleActivity", activity |-> activity, input |-> input,
     start_to_close_timeout |-> start_to_close_timeout,
     retry_policy |-> retry_policy]

CompleteWorkflow(value) == [kind |-> "Complete", value |-> value]

\* run() catching the exception and returning it as its value.
FailWorkflow_AsReturn(error) == [kind |-> "Complete", value |-> error]

FailWorkflow(error) == [kind |-> "Fail", error |-> error]

\* A recorded activity outcome, as the awaiting workflow code sees it.
Ok(value, attempt) == [ok |-> TRUE, value |-> value, attempt |-> attempt]

Err(error, attempt) == [ok |-> FALSE, error |-> error, attempt |-> attempt]

(***************************************************************************)
(* backend/workflows/dummy.py: DummyWorkflow.run, as the command the        *)
(* coroutine issues once `results` (the outcomes of the activities it has   *)
(* awaited so far, in issue order) have been fed back to it.  `clock` is    *)
(* the wall clock of the worker executing the code, which run() never reads.*)
(***************************************************************************)
\* run() with start_time read from the worker's wall clock in the workflow.
DummyWorkflowRun_WallClock(workflow_id, message, results, clock) ==
    LET n == Len(results)
        echoed == Truthy(message)
        last == IF echoed THEN 3 ELSE 2
    IN  IF \E i \in 1..n : ~results[i].ok
        THEN FailWorkflow(results[n].error)
        ELSE IF n = 0
        THEN ScheduleActivity("get_current_time", <<>>, 10, GetCurrentTimePolicy)
        ELSE IF n = 1 /\ echoed
        THEN ScheduleActivity("echo_message", <<message[1]>>, 10, EchoMessagePolicy)
        ELSE IF n = last - 1
        THEN ScheduleActivity("simulate_work", <<3>>, 30, SimulateWorkPolicy)
        ELSE CompleteWorkflow(
                 [start_time |-> clock,
                  echo_result |-> IF echoed THEN Some(results[2].value) ELSE None,
                  work_result |-> results[last].value,
                  workflow_id |-> workflow_id])

\* run() testing `message is not None` instead of `if message`.
DummyWorkflowRun_EchoUnlessNone(workflow_id, message, results, clock) ==
    LET n == Len(results)
        echoed == message # None
        last == IF echoed THEN 3 ELSE 2
    IN  IF \E i \in 1..n : ~results[i].ok
        THEN FailWorkflow(results[n].error)
        ELSE IF n = 0
        THEN ScheduleActivity("get_current_time", <<>>, 10, GetCurrentTimePolicy)
        ELSE IF n = 1 /\ echoed
        THEN ScheduleActivity("echo_message", <<message[1]>>, 10, EchoMessagePolicy)
        ELSE IF n = last - 1
        THEN ScheduleActivity("simulate_work", <<3>>, 30, SimulateWorkPolicy)
        ELSE CompleteWorkflow(
                 [start_time |-> results[1].value,
                  echo_result |-> IF echoed THEN Some(results[2].value) ELSE None,
                  work_result |-> results[last].value,
                  workflow_id |-> workflow_id])

DummyWorkflowRun(workflow_id, message, results, clock) ==
    LET n == Len(results)
        echoed == Truthy(message)
        last == IF echoed THEN 3 ELSE 2
    IN  IF \E i \in 1..n : ~results[i].ok
        THEN FailWorkflow(results[n].error)
        ELSE IF n = 0
        THEN ScheduleActivity("get_current_time", <<>>, 10, GetCurrentTimePolicy)
        ELSE IF n = 1 /\ echoed
        THEN ScheduleActivity("echo_message", <<message[1]>>, 10, EchoMessagePolicy)
        ELSE IF n = last - 1
        THEN ScheduleActivity("simulate_work", <<3>>, 30, SimulateWorkPolicy)
        ELSE CompleteWorkflow(
                 [start_time |-> results[1].value,
                  echo_result |-> IF echoed THEN Some(results[2].value) ELSE None,
                  work_result |-> results[last].value,
                  workflow_id |-> workflow_id])

\* The value run() returns when its three activities succeed on a worker
\* whose activities read `clock`.
DummyWorkflowResult(workflow_id, message, clock) ==
    LET r1 == <<Ok(get_current_time(clock), 1)>>
        r2 == IF Truthy(message)
              THEN Append(r1, Ok(echo_message(message[1]), 1))
              ELSE r1
        r3 == Append(r2, Ok(simulate_work(3), 1))
    IN  DummyWorkflowRun(workflow_id, message, r3, clock).value

StartChildWorkflow(workflow, input, id, retry_policy) ==
    [kind |-> "StartChildWorkflow", workflow |-> workflow, input |-> input,
     id |-> id, retry_policy |-> retry_policy]

(***************************************************************************)
(* backend/workflows/dummy.py: ChainedDummyWorkflow.run, as the command it  *)
(* issues once the outcomes `results` of the children it has awaited so far *)
(* have been fed back to it.                                                *)
(***************************************************************************)
\* The loop counting its children from 1.
ChainedDummyWorkflowRun_FromOne(workflow_id, messages, results, clock) ==
    LET n == Len(results)
    IN  IF \E i \in 1..n : ~results[i].ok
        THEN FailWorkflow(results[n].error)
        ELSE IF n < Len(messages)
        THEN StartChildWorkflow("DummyWorkflow", <<Some(messages[n + 1])>>,
                 workflow_id \o "-child-" \o IntToStr(n + 1), ChildWorkflowPolicy)
        ELSE CompleteWorkflow([i \in 1..n |-> results[i].value])

ChainedDummyWorkflowRun(workflow_id, messages, results, clock) ==
    LET n == Len(results)
    IN  IF \E i \in 1..n : ~results[i].ok
        THEN FailWorkflow(results[n].error)
        ELSE IF n < Len(messages)
        THEN StartChildWorkflow("DummyWorkflow", <<Some(messages[n + 1])>>,
                 workflow_id \o "-child-" \o IntToStr(n), ChildWorkflowPolicy)
        ELSE CompleteWorkflow([i \in 1..n |-> results[i].value])

(***************************************************************************)
(* Retry Policy Engine (spec.md 4.2).                                       *)
(***************************************************************************)
RECURSIVE Pow(_, _)
Pow(b, e) == IF e = 0 THEN 1 ELSE b * Pow(b, e - 1)

Min(a, b) == IF a <= b THEN a ELSE b

GiveUp == [give_up |-> TRUE, delay |-> 0]

Retry(delay) == [give_up |-> FALSE, delay |-> delay]

\* next_delay without the "maximum_attempts > 0" test: 0 is read as a budget.
NextDelay_ZeroIsBudget(policy, attempt, elapsed, retryable) ==
    IF attempt >= policy.maximum_attempts \/ ~retryable
    THEN GiveUp
    ELSE Retry(Min(policy.initial_interval
                       * Pow(policy.backoff_coefficient, attempt - 1),
                   policy.maximum_interval))

\* next_delay(policy, attempt, elapsed) -> Duration | GiveUp, for a failure
\* the caller flags retryable or not.
NextDelay(policy, attempt, elapsed, retryable) ==
    IF (policy.maximum_attempts > 0 /\ attempt >= policy.maximum_attempts)
       \/ ~retryable
    THEN GiveUp
    ELSE Retry(Min(policy.initial_interval
                       * Pow(policy.backoff_coefficient, attempt - 1),
                   policy.maximum_interval))

(***************************************************************************)
(* The environment: an activity handler fails its first `failures`          *)
(* attempts (every attempt when `forever`), each failure flagged            *)
(* `retryable` or not, and succeeds on the others.                          *)
(***************************************************************************)
HandlerBehaviours ==
    {h \in [failures : 0..MaxFailures, forever : BOOLEAN, retryable : BOOLEAN] :
        /\ h.forever => h.failures = 0
        /\ (h.failures = 0 /\ ~h.forever) => h.retryable}

HandlerFails(h, attempt) == h.forever \/ attempt <= h.failures

(***************************************************************************)
(* History Journal and Workflow Execution Context (spec.md 4.1, 4.5).       *)
(***************************************************************************)
Event(seq, kind, payload) == [seq |-> seq, kind |-> kind, payload |-> payload]

\* An append that writes over the last event instead of adding after it.
JournalAppend_Overwrite(H, kind, payload) ==
    IF H = <<>>
    THEN <<Event(1, kind, payload)>>
    ELSE [H EXCEPT ![Len(H)] = Event(Len(H), kind, payload)]

\* append(run_id, event) -> sequence_number: the next number of the run.
JournalAppend(H, kind, payload) == Append(H, Event(Len(H) + 1, kind, payload))

IsOutcome(e) ==
    e.kind \in {"ActivityCompleted", "ActivityFailed",
                "ChildWorkflowCompleted", "ChildWorkflowFailed"}

\* The recorded activity outcomes of a history, in order.
ResultsOf(H) ==
    LET out == SelectSeq(H, IsOutcome)
    IN  [i \in 1..Len(out) |-> out[i].payload]

NoTask == [state |-> "none"]

\* The task of a ScheduleActivity or StartChildWorkflow command: attempt 1,
\* due at once.  A child workflow is dispatched like an activity, under the
\* type name of its workflow.
NewTask(cmd, clock) ==
    IF cmd.kind = "ScheduleActivity"
    THEN [state |-> "pending", kind |-> "activity", activity |-> cmd.activity,
          input |-> cmd.input, attempt |-> 1, retry_policy |-> cmd.retry_policy,
          not_before |-> clock, starts |-> <<>>, id |-> ""]
    ELSE [state |-> "pending", kind |-> "child", activity |-> cmd.workflow,
          input |-> cmd.input, attempt |-> 1, retry_policy |-> cmd.retry_policy,
          not_before |-> clock, starts |-> <<>>, id |-> cmd.id]

\* What a successful attempt of the task returns.
TaskResult(t, clock) ==
    IF t.kind = "activity"
    THEN HandlerResult(t.activity, t.input, clock)
    ELSE DummyWorkflowResult(t.id, t.input[1], clock)

CompletedKind(t) ==
    IF t.kind = "activity" THEN "ActivityCompleted" ELSE "ChildWorkflowCompleted"

FailedKind(t) ==
    IF t.kind = "activity" THEN "ActivityFailed" ELSE "ChildWorkflowFailed"

Terminal == {"COMPLETED", "FAILED", "CANCELLED", "TERMINATED", "CONTINUED_AS_NEW"}

\* start(workflow_id, run_id, input): a fresh RUNNING run and its first event.
StartedRun(workflow_id, input) ==
    [workflow_id |-> workflow_id, input |-> input, status |-> "RUNNING",
     result |-> None]

StartedJournal(workflow_id, input) ==
    JournalAppend(<<>>, "WorkflowStarted",
                  [workflow_id |-> workflow_id, input |-> input])

\* The parts of the state a specification does not use.
NoApi == runs = <<>> /\ requests = <<>>

NoLease == lease = "free" /\ drivers = <<>>

NoQueue ==
    /\ pending = <<>>
    /\ leased = <<>>
    /\ acked = {}
    /\ pollers = <<>>
    /\ counters = <<>>

NoClient ==
    /\ settings = <<>>
    /\ client = <<>>
    /\ invocations = <<>>
    /\ sessions = <<>>

\* No worker process and no discovery is part of the specification.
NoWorker == worker = <<>> /\ discovery = <<>>

NoEngine ==
    /\ wf = StartedRun("", None)
    /\ journal = <<>>
    /\ commands = <<>>
    /\ task = NoTask
    /\ handler = <<>>
    /\ now = 0

Init ==
    /\ NoApi
    /\ NoWorker
    /\ NoClient
    /\ NoLease
    /\ NoQueue
    /\ \E id \in WorkflowIds, m \in Messages :
          /\ wf = StartedRun(id, m)
          /\ journal = StartedJournal(id, m)
    /\ commands = <<>>
    /\ task = NoTask
    /\ handler \in [Activities -> HandlerBehaviours]
    /\ now = 0

\* A workflow task: the workflow code runs from its suspension point to the
\* next command, which the context records and applies.
WorkflowTask ==
    /\ wf.status = "RUNNING"
    /\ task.state = "none"
    /\ LET cmd == DummyWorkflowRun(wf.workflow_id, wf.input, ResultsOf(journal), now)
       IN  /\ commands' = Append(commands, cmd)
           /\ CASE cmd.kind = "ScheduleActivity" ->
                    /\ journal' = JournalAppend(journal, "ActivityScheduled",
                                      [activity |-> cmd.activity, input |-> cmd.input])
                    /\ task' = NewTask(cmd, now)
                    /\ wf' = wf
                [] cmd.kind = "Complete" ->
                    /\ journal' = JournalAppend(journal, "WorkflowCompleted", cmd.value)
                    /\ wf' = [wf EXCEPT !.status = "COMPLETED", !.result = Some(cmd.value)]
                    /\ task' = task
                [] cmd.kind = "Fail" ->
                    /\ journal' = JournalAppend(journal, "WorkflowFailed", cmd.error)
                    /\ wf' = [wf EXCEPT !.status = "FAILED", !.result = Some(cmd.error)]
                    /\ task' = task
    /\ UNCHANGED <<handler, now>>
    /\ UNCHANGED outsideEngine

\* The Activity Executor takes the pending task once its retry delay is over.
StartAttempt ==
    /\ wf.status = "RUNNING"
    /\ task.state = "pending"
    /\ task.attempt <= MaxAttempt
    /\ now >= task.not_before
    /\ task' = [task EXCEPT !.state = "running", !.starts = Append(@, now)]
    /\ UNCHANGED <<wf, journal, commands, handler, now>>
    /\ UNCHANGED outsideEngine

\* The handler returns: ActivityCompleted is recorded with the attempt count.
AttemptSucceeds ==
    /\ wf.status = "RUNNING"
    /\ task.state = "running"
    /\ ~HandlerFails(handler[task.activity], task.attempt)
    /\ now >= task.starts[task.attempt] + HandlerDuration(task.activity, task.input)
    /\ journal' = JournalAppend(journal, CompletedKind(task),
                      Ok(TaskResult(task, now), task.attempt))
    /\ task' = NoTask
    /\ UNCHANGED <<wf, commands, handler, now>>
    /\ UNCHANGED outsideEngine

\* The handler raises: the Retry Policy Engine decides between attempt+1
\* after the delay and a terminal ActivityFailed event.
AttemptFails ==
    /\ wf.status = "RUNNING"
    /\ task.state = "running"
    /\ HandlerFails(handler[task.activity], task.attempt)
    /\ LET retryable == handler[task.activity].retryable
           d == NextDelay(task.retry_policy, task.attempt,
                          now - task.starts[1], retryable)
       IN  IF d.give_up
           THEN /\ journal' = JournalAppend(journal, FailedKind(task),
                                  Err([message |-> "ActivityError",
                                       activity |-> task.activity,
                                       retryable |-> retryable], task.attempt))
                /\ task' = NoTask
           ELSE /\ journal' = journal
                /\ task' = [task EXCEPT !.state = "pending",
                                        !.attempt = @ + 1,
                                        !.not_before = now + d.delay]
    /\ UNCHANGED <<wf, commands, handler, now>>
    /\ UNCHANGED outsideEngine

Tick ==
    /\ now < MaxTime
    /\ now' = now + 1
    /\ UNCHANGED <<wf, journal, commands, task, handler>>
    /\ UNCHANGED outsideEngine

Next ==
    \/ WorkflowTask
    \/ StartAttempt
    \/ AttemptSucceeds
    \/ AttemptFails
    \/ Tick

Spec == Init /\ [][Next]_vars

(***************************************************************************)
(* resume(run_id, history) (spec.md 4.1): the workflow code is run again    *)
(* from the start on a worker whose wall clock reads `clock`, each awaited  *)
(* call answered from the recorded outcomes in issue order; it yields one   *)
(* command per recorded outcome and the one after the last.                 *)
(***************************************************************************)
Replay(H, clock) ==
    LET started == H[1].payload
        results == ResultsOf(H)
    IN  [k \in 1..(Len(results) + 1) |->
            DummyWorkflowRun(started.workflow_id, started.input,
                             SubSeq(results, 1, k - 1), clock)]

\* The recorded outcome of `activity` in history H (the engine records it
\* right after the activity's ActivityScheduled event), if there is one.
Scheduled(H, activity) ==
    {i \in 1..Len(H) : H[i].kind = "ActivityScheduled"
                        /\ H[i].payload.activity = activity}

HasOutcome(H, activity) ==
    \E i \in Scheduled(H, activity) : i < Len(H) /\ IsOutcome(H[i + 1])

OutcomeOf(H, activity) ==
    H[(CHOOSE i \in Scheduled(H, activity) : TRUE) + 1].payload

\* The handler succeeds on its first attempt.
Succeeds(h) == ~h.forever /\ h.failures = 0

\* The handler fails k times with retryable errors and then succeeds.
FailsThenSucceeds(h, k) == ~h.forever /\ h.failures = k /\ h.retryable

(***************************************************************************)
(* Properties of a DummyWorkflow run.                                       *)
(***************************************************************************)

C2_Original ==
    (/\ wf.status \in Terminal
     /\ Succeeds(handler["get_current_time"])
     /\ Succeeds(handler["echo_message"])
     /\ FailsThenSucceeds(handler["simulate_work"], 2))
    => /\ wf.status = "COMPLETED"
       /\ OutcomeOf(journal, "simulate_work").attempt = 3

\* The retry budget the workflow code gives each activity.
MaximumAttemptsOf(activity) ==
    CASE activity = "get_current_time" -> GetCurrentTimePolicy.maximum_attempts
      [] activity = "echo_message" -> EchoMessagePolicy.maximum_attempts
      [] activity = "simulate_work" -> SimulateWorkPolicy.maximum_attempts

\* C2 amended: when every activity's handler fails fewer times than the
\* activity's maximum_attempts, with retryable errors, and then succeeds
\* (simulate_work: once, succeeding on attempt 2; get_current_time and
\* echo_message: up to twice, succeeding on attempt 3), the run ends
\* COMPLETED and each recorded attempt count is the failures plus one.
C2_RetryThenSucceed ==
    (/\ wf.status \in Terminal
     /\ \A a \in Activities :
           \E k \in 0..MaxFailures : FailsThenSucceeds(handler[a], k)
     /\ handler["get_current_time"].failures <= 2
     /\ handler["echo_message"].failures <= 2
     /\ handler["simulate_work"].failures <= 1)
    => /\ wf.status = "COMPLETED"
       /\ \A a \in Activities :
             HasOutcome(journal, a)
             => /\ OutcomeOf(journal, a).ok
                /\ OutcomeOf(journal, a).attempt = handler[a].failures + 1

C2_Witness ==
    /\ wf.status = "COMPLETED"
    /\ FailsThenSucceeds(handler["simulate_work"], 1)
    /\ OutcomeOf(journal, "simulate_work").attempt = 2

\* The handler fails every attempt a budget of `attempts` allows.
FailsAll(h, attempts) == h.forever \/ h.failures >= attempts

\* C3: when simulate_work fails on every attempt of its budget of 2, the run
\* is never COMPLETED, no third attempt of simulate_work is dispatched, and
\* once simulate_work has its outcome the run ends FAILED carrying that final
\* ActivityError (recorded on attempt 2 when the errors are retryable).
C3_ScenarioC ==
    FailsAll(handler["simulate_work"], 2)
    => /\ wf.status # "COMPLETED"
       /\ (task.state # "none" /\ task.activity = "simulate_work")
             => task.attempt <= 2 /\ Len(task.starts) <= 2
       /\ (wf.status \in Terminal /\ HasOutcome(journal, "simulate_work"))
             => LET out == OutcomeOf(journal, "simulate_work")
                IN  /\ ~out.ok
                    /\ out.attempt <= 2
                    /\ out.error.retryable => out.attempt = 2
                    /\ out.error.activity = "simulate_work"
                    /\ wf.status = "FAILED"
                    /\ wf.result = Some(out.error)
                    /\ journal[Len(journal)] =
                         Event(Len(journal), "WorkflowFailed", out.error)

C3_Witness ==
    /\ wf.status = "FAILED"
    /\ handler["simulate_work"].forever
    /\ handler["simulate_work"].retryable
    /\ HasOutcome(journal, "simulate_work")
    /\ OutcomeOf(journal, "simulate_work").attempt = 2

\* C4: get_current_time runs under maximum_attempts=3, initial_interval=1s,
\* backoff_coefficient=2 and a cap of at least 10s; its attempt 2 starts no
\* earlier than 1s and its attempt 3 no earlier than 3s after attempt 1, and
\* a 4th attempt never exists.
C4_RetryBound ==
    (task.state # "none" /\ task.activity = "get_current_time")
    => /\ task.retry_policy.maximum_attempts = 3
       /\ task.retry_policy.initial_interval = 1
       /\ task.retry_policy.backoff_coefficient = 2
       /\ task.retry_policy.maximum_interval >= 10
       /\ task.attempt <= 3
       /\ Len(task.starts) <= 3
       /\ Len(task.starts) >= 2 => task.starts[2] - task.starts[1] >= 1
       /\ Len(task.starts) >= 3 => task.starts[3] - task.starts[1] >= 3

C4_Witness ==
    /\ task.state = "running"
    /\ task.activity = "get_current_time"
    /\ handler["get_current_time"].forever
    /\ Len(task.starts) = 3
    /\ task.starts[3] - task.starts[1] = 3

\* C7: replaying the recorded history yields the same command sequence
\* whatever the wall clock of the worker that replays it (so any two replays
\* agree), and that sequence begins with the commands the forward execution
\* issued.
C7_ReplayDeterminism ==
    /\ \A t \in 1..MaxTime : Replay(journal, t) = Replay(journal, 0)
    /\ Len(commands) <= Len(Replay(journal, 0))
    /\ SubSeq(Replay(journal, 0), 1, Len(commands)) = commands

C7_Witness ==
    /\ wf.status = "COMPLETED"
    /\ Truthy(wf.input)
    /\ Len(commands) = 4
    /\ now > OutcomeOf(journal, "get_current_time").value
    /\ Replay(journal, 0) = commands

\* C11: the History Journal of the run is append-only: in every step the
\* event list after the step has the list before the step as a prefix, so
\* no appended event is modified, reordered or removed.
C11_AppendOnly ==
    [][/\ Len(journal') >= Len(journal)
       /\ SubSeq(journal', 1, Len(journal)) = journal]_vars

C11_Witness ==
    /\ wf.status = "FAILED"
    /\ Len(journal) = 6
    /\ journal[3].kind = "ActivityCompleted"
    /\ journal[5].kind = "ActivityFailed"
    /\ journal[6].kind = "WorkflowFailed"

C14_State ==
    LET results == ResultsOf(journal)
        failed == \E i \in 1..Len(results) : ~results[i].ok
        last == journal[Len(journal)]
    IN  /\ wf.status \in {"RUNNING", "COMPLETED", "FAILED"}
        /\ wf.result # None => wf.status \in Terminal
        /\ wf.status = "RUNNING" =>
              \A i \in 1..Len(journal) :
                  journal[i].kind \notin {"WorkflowCompleted", "WorkflowFailed"}
        /\ wf.status = "COMPLETED" =>
              /\ ~failed
              /\ commands[Len(commands)].kind = "Complete"
              /\ last.kind = "WorkflowCompleted"
              /\ last.payload = commands[Len(commands)].value
              /\ wf.result = Some(last.payload)
        /\ wf.status = "FAILED" =>
              /\ failed
              /\ commands[Len(commands)].kind = "Fail"
              /\ last.kind = "WorkflowFailed"
              /\ last.payload = results[Len(results)].error
              /\ wf.result = Some(last.payload)
        /\ (failed /\ task.state = "none" /\ Len(commands) > Len(results))
              => wf.status = "FAILED"

C14_Step ==
    /\ wf.status \in Terminal => (wf' = wf /\ journal' = journal)
    /\ (wf.status = "RUNNING" /\ wf'.status # "RUNNING") =>
          /\ Len(commands') = Len(commands) + 1
          /\ Len(journal') = Len(journal) + 1
    /\ commands' # commands =>
          LET cmd == commands'[Len(commands')]
          IN  /\ cmd.kind = "Complete" =>
                    /\ wf' = [wf EXCEPT !.status = "COMPLETED",
                                        !.result = Some(cmd.value)]
                    /\ journal' = JournalAppend(journal, "WorkflowCompleted", cmd.value)
              /\ cmd.kind = "Fail" =>
                    /\ wf' = [wf EXCEPT !.status = "FAILED",
                                        !.result = Some(cmd.error)]
                    /\ journal' = JournalAppend(journal, "WorkflowFailed", cmd.error)
              /\ cmd.kind = "ScheduleActivity" => wf' = wf

\* C14: when run() returns a value the run gets WorkflowCompleted(value) and
\* status COMPLETED, when an activity error propagates out of run() it gets
\* WorkflowFailed(error) and status FAILED; the run has a result payload only
\* in a terminal status, and once its status is terminal no event is
\* appended and the run (status and result) never changes.
C14_TerminalTransitions == []C14_State /\ [][C14_Step]_vars

C14_Witness ==
    /\ wf.status = "FAILED"
    /\ now = MaxTime
    /\ task = NoTask
    /\ journal[Len(journal)].kind = "WorkflowFailed"
    /\ wf.result = Some(journal[Len(journal)].payload)
    /\ OutcomeOf(journal, "get_current_time").ok
    /\ ~OutcomeOf(journal, "simulate_work").ok

(***************************************************************************)
(* The Retry Policy Engine on its own: one run suspended on one activity or *)
(* child workflow, under each policy of a bounded set and under the         *)
(* policies the workflow code passes, with an external cancellation.        *)
(***************************************************************************)
PolicySet ==
    {RetryPolicy(m, i, b, c) : m \in 0..MaxPolicyAttempts, i \in {1, 2},
                               b \in {1, 2}, c \in {2, 10}}

RetryCommands ==
    {ScheduleActivity("get_current_time", <<>>, 10, p) : p \in PolicySet}
    \cup {DummyWorkflowRun("retry-run", Some("hi"), <<>>, 0)}
    \cup {ChainedDummyWorkflowRun("retry-run", <<"hi">>, <<>>, 0)}

\* The type name a command's task is dispatched under.
TaskName(cmd) ==
    IF cmd.kind = "ScheduleActivity" THEN cmd.activity ELSE cmd.workflow

ScheduledKind(cmd) ==
    IF cmd.kind = "ScheduleActivity" THEN "ActivityScheduled"
    ELSE "ChildWorkflowStarted"

InitRetry ==
    /\ NoApi
    /\ NoWorker
    /\ NoClient
    /\ NoLease
    /\ NoQueue
    /\ wf = StartedRun("retry-run", None)
    /\ \E cmd \in RetryCommands :
          /\ commands = <<cmd>>
          /\ journal = JournalAppend(StartedJournal("retry-run", None),
                           ScheduledKind(cmd),
                           [activity |-> TaskName(cmd), input |-> cmd.input])
          /\ task = NewTask(cmd, 0)
          /\ handler \in [{TaskName(cmd)} -> HandlerBehaviours]
    /\ now = 0

\* An external cancellation request (spec.md section 5): recorded as an
\* event and observed by the run at its suspension point.
Cancel ==
    /\ wf.status = "RUNNING"
    /\ task.state \in {"pending", "running"}
    /\ journal' = JournalAppend(journal, "WorkflowCancelRequested", <<>>)
    /\ wf' = [wf EXCEPT !.status = "CANCELLED"]
    /\ task' = [task EXCEPT !.state = "cancelled"]
    /\ UNCHANGED <<commands, handler, now>>
    /\ UNCHANGED outsideEngine

NextRetry ==
    \/ StartAttempt
    \/ AttemptSucceeds
    \/ AttemptFails
    \/ Cancel
    \/ Tick

SpecRetry == InitRetry /\ [][NextRetry]_vars

\* The give-up rule of spec.md 4.2, for the failure of attempt `attempt`.
GiveUpRule(policy, attempt, retryable) ==
    (policy.maximum_attempts > 0 /\ attempt >= policy.maximum_attempts)
    \/ ~retryable

LastEvent == journal[Len(journal)]

\* C5: a failed attempt n becomes a terminal failure event exactly when
\* maximum_attempts > 0 and n >= maximum_attempts, or the failure is flagged
\* non-retryable (a terminal failure of attempt n satisfies the rule, a retry
\* after attempt n does not); the child workflow of ChainedDummyWorkflow runs
\* under maximum_attempts = 1 and never gets a second attempt.
C5_GiveUpRule ==
    LET cmd == commands[1]
        policy == cmd.retry_policy
    IN  /\ LastEvent.kind \in {"ActivityFailed", "ChildWorkflowFailed"}
              => GiveUpRule(policy, LastEvent.payload.attempt,
                            LastEvent.payload.error.retryable)
        /\ (task.state # "none" /\ task.attempt > 1)
              => ~GiveUpRule(policy, task.attempt - 1,
                             handler[task.activity].retryable)
        /\ policy.maximum_attempts = 1
              => (task.state # "none" => task.attempt = 1)
        /\ cmd.kind = "StartChildWorkflow"
              => /\ policy.maximum_attempts = 1
                 /\ task.state # "none" => task.attempt = 1

C5_Witness ==
    /\ commands[1].kind = "StartChildWorkflow"
    /\ handler["DummyWorkflow"].forever
    /\ handler["DummyWorkflow"].retryable
    /\ LastEvent.kind = "ChildWorkflowFailed"
    /\ LastEvent.payload.attempt = 1

\* C6: under maximum_attempts = 0 with a handler that fails retryably on
\* every attempt, no terminal failure event is ever recorded, and the task
\* is in its retry loop unless the run was cancelled from outside.
C6_Unlimited ==
    LET policy == commands[1].retry_policy
        h == handler[TaskName(commands[1])]
    IN  (policy.maximum_attempts = 0 /\ h.forever /\ h.retryable)
        => /\ \A i \in 1..Len(journal) :
                 journal[i].kind \notin {"ActivityFailed", "ChildWorkflowFailed"}
           /\ \/ task.state \in {"pending", "running"} /\ wf.status = "RUNNING"
              \/ /\ task.state = "cancelled"
                 /\ wf.status = "CANCELLED"
                 /\ LastEvent.kind = "WorkflowCancelRequested"

C6_Witness ==
    /\ commands[1].retry_policy.maximum_attempts = 0
    /\ handler[TaskName(commands[1])].forever
    /\ handler[TaskName(commands[1])].retryable
    /\ task.state = "cancelled"
    /\ task.attempt = MaxAttempt
    /\ Len(task.starts) = MaxAttempt

(***************************************************************************)
(* The HTTP layer: POST /workflows/dummy/sync                               *)
(* (backend/api/routes/workflows/router.py) on the engine's start contract  *)
(* (spec.md 4.1).                                                           *)
(***************************************************************************)
ApiMessages == {None, Some(""), Some("hi"), Some("test")}

\* A workflow type as the client helpers see it: DummyWorkflow.run is the
\* bound run method, whose __name__ is "run".
WorkflowType(qualname, name) == [qualname |-> qualname, name |-> name]

DummyWorkflow_run == WorkflowType("DummyWorkflow.run", "run")

\* client.start_workflow(workflow, *args, id=..., task_queue=..., **kwargs)
StartWorkflowArgs(workflow, args, id, task_queue, kwargs) ==
    [workflow |-> workflow, args |-> args, id |-> id,
     task_queue |-> task_queue, kwargs |-> kwargs]

\* A call on temporalio's Client: its method, the request whose handler or
\* dependency made it (0: none), the start_workflow invocation that made it
\* (0: none), its arguments and the exception it raised ("": none).
ClientCall(method, request, invocation, arguments, raised) ==
    [method |-> method, request |-> request, invocation |-> invocation,
     arguments |-> arguments, raised |-> raised]

\* router.py 68: task_queue="atlas-default"
SyncTaskQueue == "atlas-default"

\* router.py 67 with the message formatted as it is, without `or 'test'`.
SyncWorkflowId_Raw(message) ==
    "dummy-sync-" \o (IF message = None THEN "None" ELSE message[1])

\* router.py 67: id=f"dummy-sync-{message or 'test'}"
SyncWorkflowId(message) == "dummy-sync-" \o OrElse(message, "test")

HasOpenRun(rs, workflow_id) ==
    \E i \in 1..Len(rs) :
        rs[i].workflow_id = workflow_id /\ rs[i].status = "RUNNING"

\* start(workflow_id, run_id, input): DuplicateWorkflowError when an OPEN run
\* exists for workflow_id, else a fresh RUNNING run (its run_id is its place
\* in `runs`).
StartWorkflow(rs, workflow_id, input) ==
    IF HasOpenRun(rs, workflow_id)
    THEN [ok |-> FALSE, error |-> "DuplicateWorkflowError", runs |-> rs]
    ELSE [ok |-> TRUE, error |-> "",
          runs |-> Append(rs, StartedRun(workflow_id, input))]

HttpResponse(status, body) == <<[status |-> status, body |-> body]>>

\* router.py 74-79 for an error the sync handler swallows into a 200.
SyncErrorResponse_Swallow(error) == HttpResponse(200, [detail |-> error])

\* router.py 74-79: except Exception -> HTTPException(500, "Failed to
\* execute workflow: ...")
SyncErrorResponse(error) ==
    HttpResponse(500, [detail |-> "Failed to execute workflow: " \o error])

NewRequest(endpoint, message) ==
    [endpoint |-> endpoint, message |-> message, pc |-> "received",
     run |-> 0, start_calls |-> 0, error |-> "", response |-> <<>>]

InitApi ==
    /\ NoEngine
    /\ NoWorker
    /\ NoLease
    /\ NoQueue
    /\ NoClient
    /\ runs = <<>>
    /\ requests = <<>>

\* A client posts to /workflows/dummy/sync with an optional message.
ReceiveSync ==
    /\ Len(requests) < MaxRequests
    /\ \E m \in ApiMessages :
          requests' = Append(requests, NewRequest("sync", m))
    /\ UNCHANGED <<runs, client>>
    /\ UNCHANGED outsideApi

\* router.py 64-69: await temporal_client.start_workflow(...), which raises
\* when the engine refuses the start or cannot be reached.
SyncStart(r) ==
    /\ requests[r].endpoint = "sync"
    /\ requests[r].pc = "received"
    /\ \E reachable \in BOOLEAN :
          LET req == requests[r]
              started == StartWorkflow(runs, SyncWorkflowId(req.message), req.message)
              error == IF reachable THEN started.error ELSE "RPCError"
          IN  /\ client' = Append(client,
                     ClientCall("start_workflow", r, 0,
                         StartWorkflowArgs(DummyWorkflow_run, <<req.message>>,
                             SyncWorkflowId(req.message), SyncTaskQueue, {}),
                         error))
              /\ IF reachable /\ started.ok
                 THEN /\ runs' = started.runs
                      /\ requests' = [requests EXCEPT ![r] =
                             [req EXCEPT !.pc = "awaiting",
                                         !.run = Len(started.runs),
                                         !.start_calls = @ + 1]]
                 ELSE /\ runs' = runs
                      /\ requests' = [requests EXCEPT ![r] =
                             [req EXCEPT !.pc = "responded",
                                         !.start_calls = @ + 1,
                                         !.error = error,
                                         !.response = SyncErrorResponse(error)]]
    /\ UNCHANGED outsideApi

\* router.py 72-73: result = await handle.result(); return result.  A run
\* that did not complete raises WorkflowFailureError.
SyncResult(r) ==
    /\ requests[r].endpoint = "sync"
    /\ requests[r].pc = "awaiting"
    /\ runs[requests[r].run].status \in Terminal
    /\ LET req == requests[r]
           run == runs[req.run]
       IN  requests' = [requests EXCEPT ![r] =
              IF run.status = "COMPLETED"
              THEN [req EXCEPT !.pc = "responded",
                               !.response = HttpResponse(200, run.result[1])]
              ELSE [req EXCEPT !.pc = "responded",
                               !.error = "WorkflowFailureError",
                               !.response = SyncErrorResponse("WorkflowFailureError")]]
    /\ UNCHANGED <<runs, client>>
    /\ UNCHANGED outsideApi

\* A worker drives the run to the end of DummyWorkflow.run.
RunCompletes(i) ==
    /\ runs[i].status = "RUNNING"
    /\ runs' = [runs EXCEPT ![i] =
          [@ EXCEPT !.status = "COMPLETED",
                    !.result = Some(DummyWorkflowResult(runs[i].workflow_id,
                                                        runs[i].input, now))]]
    /\ UNCHANGED <<requests, client>>
    /\ UNCHANGED outsideApi

\* An activity of the run fails terminally and run() propagates the error.
RunFails(i) ==
    /\ runs[i].status = "RUNNING"
    /\ runs' = [runs EXCEPT ![i] =
          [@ EXCEPT !.status = "FAILED", !.result = Some("ActivityError")]]
    /\ UNCHANGED <<requests, client>>
    /\ UNCHANGED outsideApi

NextApi ==
    \/ ReceiveSync
    \/ \E r \in 1..Len(requests) : SyncStart(r)
    \/ \E r \in 1..Len(requests) : SyncResult(r)
    \/ \E i \in 1..Len(runs) : RunCompletes(i)
    \/ \E i \in 1..Len(runs) : RunFails(i)

SpecApi == InitApi /\ [][NextApi]_vars

\* The requests whose handler holds a run.
Holding == {r \in 1..Len(requests) : requests[r].run # 0}

C10_State ==
    /\ \A i, j \in 1..Len(runs) :
          (i # j /\ runs[i].status = "RUNNING" /\ runs[j].status = "RUNNING")
          => runs[i].workflow_id # runs[j].workflow_id
    /\ \A r \in 1..Len(requests) :
          /\ requests[r].start_calls <= 1
          /\ requests[r].error = "DuplicateWorkflowError"
                => /\ requests[r].run = 0
                   /\ requests[r].pc = "responded"
                   /\ requests[r].response = HttpResponse(500,
                        [detail |-> "Failed to execute workflow: DuplicateWorkflowError"])
    /\ Len(runs) = Cardinality(Holding)
    /\ \A r1, r2 \in Holding :
          (/\ r1 # r2
           /\ OrElse(requests[r1].message, "test") = OrElse(requests[r2].message, "test"))
          => ~(/\ runs[requests[r1].run].status = "RUNNING"
               /\ runs[requests[r2].run].status = "RUNNING")

C10_Step ==
    \A r \in 1..Len(requests) :
        (/\ requests[r].pc = "received"
         /\ requests'[r].pc # "received"
         /\ requests'[r].error # "RPCError"
         /\ \E i \in 1..Len(runs) :
               /\ runs[i].status = "RUNNING"
               /\ runs[i].workflow_id =
                    "dummy-sync-" \o OrElse(requests[r].message, "test"))
        => /\ runs' = runs
           /\ requests'[r].error = "DuplicateWorkflowError"
           /\ requests'[r].run = 0

\* C10: no two OPEN runs share a workflow_id; a sync request makes at most
\* one start call; a start that reaches the engine while an OPEN run has the
\* id "dummy-sync-<message or 'test'>" changes no run and ends the request
\* with DuplicateWorkflowError as a 500 response; the runs are exactly those
\* of the requests that started one, and two requests with the same
\* `message or 'test'` never both hold an OPEN run.
C10_SingleOpenRun == []C10_State /\ [][C10_Step]_vars

C10_Witness ==
    \E r1, r2 \in 1..Len(requests) :
        /\ requests[r1].message = Some("")
        /\ requests[r2].message = Some("test")
        /\ requests[r1].pc = "awaiting"
        /\ runs[requests[r1].run].status = "RUNNING"
        /\ requests[r2].error = "DuplicateWorkflowError"
        /\ requests[r2].response[1].status = 500
        /\ Len(runs) = 1

\* The calls of `method` on the Temporal client made for request r.
CallsOf(method, r) ==
    {c \in 1..Len(client) :
        client[c].method = method /\ client[c].request = r}

\* C18: a sync request starts DummyWorkflow.run once, with the message as
\* argument, id "dummy-sync-<message or 'test'>" and task queue
\* "atlas-default", waits for the run and answers 200 with the run's result;
\* when the start or the wait raises, it answers 500 with the detail
\* "Failed to execute workflow: <error>" and no result.
C18_SyncEndpoint ==
    \A r \in 1..Len(requests) :
        LET req == requests[r]
            m == IF req.message = None \/ req.message = Some("")
                 THEN "test" ELSE req.message[1]
        IN  /\ req.pc = "received" => CallsOf("start_workflow", r) = {}
            /\ req.pc # "received" =>
                  /\ Cardinality(CallsOf("start_workflow", r)) = 1
                  /\ \A c \in CallsOf("start_workflow", r) :
                        /\ client[c].arguments =
                              StartWorkflowArgs(DummyWorkflow_run, <<req.message>>,
                                  "dummy-sync-" \o m, "atlas-default", {})
                        /\ client[c].raised # "" =>
                              (req.pc = "responded" /\ req.error = client[c].raised)
            /\ req.pc = "awaiting" =>
                  (req.response = <<>> /\ req.error = "" /\ req.run # 0)
            /\ req.error # "" => req.pc = "responded"
            /\ req.pc = "responded" =>
                  IF req.error = ""
                  THEN /\ runs[req.run].status = "COMPLETED"
                       /\ req.response = HttpResponse(200, runs[req.run].result[1])
                  ELSE /\ req.response = HttpResponse(500,
                              [detail |-> "Failed to execute workflow: " \o req.error])
                       /\ req.run # 0 => runs[req.run].status = "FAILED"

C18_Witness ==
    \E r \in 1..Len(requests) :
        /\ requests[r].message = Some("hi")
        /\ requests[r].pc = "responded"
        /\ requests[r].error = "WorkflowFailureError"
        /\ requests[r].response[1].status = 500
        /\ runs[requests[r].run].workflow_id = "dummy-sync-hi"
        /\ Cardinality(CallsOf("start_workflow", r)) = 1

(***************************************************************************)
(* The History Journal of one run under the run's execution lease           *)
(* (spec.md 4.5 and section 5): a worker acquires the lease, resumes from   *)
(* the journal and appends; an append reads the journal's last sequence     *)
(* number and then writes the event, and the write is applied only while    *)
(* the worker still holds the lease.                                        *)
(***************************************************************************)
Workers == {"w1", "w2"}

Idle == [state |-> "idle", seq |-> 0]

\* A journal write that is applied whoever holds the lease.
HoldsLease_Unfenced(holder, w) == TRUE

\* A journal write that is applied whenever some worker holds the lease.
HoldsLease_AnyHolder(holder, w) == holder # "free"

\* The lease check of a journal write.
HoldsLease(holder, w) == holder = w

InitJournal ==
    /\ NoApi
    /\ NoWorker
    /\ NoClient
    /\ NoQueue
    /\ wf = StartedRun("leased-run", None)
    /\ journal = StartedJournal("leased-run", None)
    /\ commands = <<>>
    /\ task = NoTask
    /\ handler = <<>>
    /\ now = 0
    /\ lease = "free"
    /\ drivers = [w \in Workers |-> Idle]

\* A worker takes the free lease and resumes the run from its journal.
AcquireLease(w) ==
    /\ lease = "free"
    /\ drivers[w].state = "idle"
    /\ lease' = w
    /\ drivers' = [drivers EXCEPT ![w] = [state |-> "driving", seq |-> 0]]
    /\ UNCHANGED journal
    /\ UNCHANGED outsideLease

\* The lease runs out (its holder crashed or stalled) and is reclaimed.
LeaseExpires ==
    /\ lease # "free"
    /\ lease' = "free"
    /\ UNCHANGED <<journal, drivers>>
    /\ UNCHANGED outsideLease

\* append, first half: the worker reads the run's last sequence number.
AppendBegin(w) ==
    /\ drivers[w].state = "driving"
    /\ Len(journal) < MaxEvents
    /\ drivers' = [drivers EXCEPT ![w] =
          [state |-> "appending", seq |-> journal[Len(journal)].seq + 1]]
    /\ UNCHANGED <<journal, lease>>
    /\ UNCHANGED outsideLease

\* append, second half: the event is written under the number read, if the
\* worker still holds the lease; otherwise LeaseExpiredError, and the worker
\* abandons its local state.
AppendCommit(w) ==
    /\ drivers[w].state = "appending"
    /\ IF HoldsLease(lease, w)
       THEN /\ journal' = Append(journal,
                  Event(drivers[w].seq, "TimerFired", [writer |-> w]))
            /\ drivers' = [drivers EXCEPT ![w] = [state |-> "driving", seq |-> 0]]
       ELSE /\ journal' = journal
            /\ drivers' = [drivers EXCEPT ![w] = Idle]
    /\ UNCHANGED lease
    /\ UNCHANGED outsideLease

\* The worker gives the run up and releases the lease if it holds it.
ReleaseLease(w) ==
    /\ drivers[w].state = "driving"
    /\ drivers' = [drivers EXCEPT ![w] = Idle]
    /\ lease' = IF lease = w THEN "free" ELSE lease
    /\ UNCHANGED journal
    /\ UNCHANGED outsideLease

NextJournal ==
    \/ \E w \in Workers : AcquireLease(w)
    \/ LeaseExpires
    \/ \E w \in Workers : AppendBegin(w)
    \/ \E w \in Workers : AppendCommit(w)
    \/ \E w \in Workers : ReleaseLease(w)

SpecJournal == InitJournal /\ [][NextJournal]_vars

\* C8: however the appends of the workers interleave, the sequence numbers
\* of the run's events are strictly increasing in append order, so no two
\* events carry the same number.
C8_SingleWriter ==
    \A i, j \in 1..Len(journal) : i < j => journal[i].seq < journal[j].seq

C8_Witness ==
    /\ Len(journal) = MaxEvents
    /\ \E i, j \in 1..Len(journal) :
          /\ journal[i].kind = "TimerFired"
          /\ journal[j].kind = "TimerFired"
          /\ journal[i].payload.writer # journal[j].payload.writer
    /\ \E w \in Workers : drivers[w].state = "appending" /\ lease # w

\* C12: every event appended to the run's journal is written by the worker
\* that holds the run's lease at that moment, also after a second worker
\* took the lease over; a worker whose lease is gone applies no journal
\* write: its pending append changes nothing and it abandons its local state.
C12_LeaseHolderWrites ==
    [][/\ journal' # journal =>
             /\ lease \in Workers
             /\ drivers[lease].state = "appending"
             /\ drivers'[lease].state = "driving"
             /\ Len(journal') = Len(journal) + 1
             /\ journal' = Append(journal, journal'[Len(journal')])
             /\ journal'[Len(journal')].payload.writer = lease
       /\ \A w \in Workers :
             (/\ lease # w
              /\ drivers[w].state = "appending"
              /\ drivers'[w] # drivers[w])
             => /\ journal' = journal
                /\ drivers'[w] = Idle]_vars

C12_Witness ==
    /\ lease = "w2"
    /\ drivers["w1"].state = "appending"
    /\ drivers["w2"].state = "driving"
    /\ Len(journal) = 3
    /\ journal[2].payload.writer = "w1"
    /\ journal[3].payload.writer = "w2"

(***************************************************************************)
(* The Task Queue Dispatcher (spec.md 4.4): a FIFO pending set, leases on   *)
(* dequeued tasks, acks, and pollers that may crash while they hold a task. *)
(* A lease may run out at any moment it is not extended.                    *)
(***************************************************************************)
IdlePoller == [state |-> "idle", task |-> 0]

Working(t) == [state |-> "working", task |-> t]

\* The function f without t in its domain.
Without(f, t) == [x \in DOMAIN f \ {t} |-> f[x]]

\* The function f with t mapped to v.
With(f, t, v) == [x \in DOMAIN f \cup {t} |-> IF x = t THEN v ELSE f[x]]

\* A lease expiry that forgets the task.
Requeue_Drop(queue, t) == queue

\* Lease expiry: the task returns to pending for redelivery.
Requeue(queue, t) == Append(queue, t)

InitQueue ==
    /\ NoEngine
    /\ NoWorker
    /\ NoApi
    /\ NoClient
    /\ NoLease
    /\ pending = <<>>
    /\ leased = <<>>
    /\ acked = {}
    /\ pollers = [w \in Workers |-> IdlePoller]
    /\ counters = [enqueued |-> 0, crashes |-> 0]

\* enqueue(task): append to the pending set.
Enqueue ==
    /\ counters.enqueued < MaxTasks
    /\ counters' = [counters EXCEPT !.enqueued = @ + 1]
    /\ pending' = Append(pending, counters.enqueued + 1)
    /\ UNCHANGED <<leased, acked, pollers>>
    /\ UNCHANGED outsideQueue

\* poll(queue_name, ...): the first pending task is leased to the poller.
Poll(w) ==
    /\ pollers[w].state = "idle"
    /\ pending # <<>>
    /\ pending' = Tail(pending)
    /\ leased' = With(leased, Head(pending), w)
    /\ pollers' = [pollers EXCEPT ![w] = Working(Head(pending))]
    /\ UNCHANGED <<acked, counters>>
    /\ UNCHANGED outsideQueue

\* The poller completes its task and acks it; the ack counts only while the
\* poller's lease on the task is live.
Ack(w) ==
    /\ pollers[w].state = "working"
    /\ LET t == pollers[w].task
       IN  IF t \in DOMAIN leased /\ leased[t] = w
           THEN /\ acked' = acked \cup {t}
                /\ leased' = Without(leased, t)
           ELSE UNCHANGED <<acked, leased>>
    /\ pollers' = [pollers EXCEPT ![w] = IdlePoller]
    /\ UNCHANGED <<pending, counters>>
    /\ UNCHANGED outsideQueue

\* The poller crashes before acking: its lease stays until it runs out.
Crash(w) ==
    /\ pollers[w].state = "working"
    /\ counters.crashes < MaxCrashes
    /\ counters' = [counters EXCEPT !.crashes = @ + 1]
    /\ pollers' = [pollers EXCEPT ![w] = [state |-> "crashed", task |-> 0]]
    /\ UNCHANGED <<pending, leased, acked>>
    /\ UNCHANGED outsideQueue

\* A crashed poller comes back and polls again.
Restart(w) ==
    /\ pollers[w].state = "crashed"
    /\ pollers' = [pollers EXCEPT ![w] = IdlePoller]
    /\ UNCHANGED <<pending, leased, acked, counters>>
    /\ UNCHANGED outsideQueue

\* The lease on a dequeued task runs out before an ack.
TaskLeaseExpires(t) ==
    /\ t \in DOMAIN leased
    /\ leased' = Without(leased, t)
    /\ pending' = Requeue(pending, t)
    /\ UNCHANGED <<acked, pollers, counters>>
    /\ UNCHANGED outsideQueue

NextQueue ==
    \/ Enqueue
    \/ \E w \in Workers : Poll(w)
    \/ \E w \in Workers : Ack(w)
    \/ \E w \in Workers : Crash(w)
    \/ \E w \in Workers : Restart(w)
    \/ \E t \in 1..MaxTasks : TaskLeaseExpires(t)

SpecQueue == InitQueue /\ [][NextQueue]_vars

\* Leases run out, crashed pollers restart, working pollers finish and idle
\* pollers poll.
QueueFairness ==
    /\ \A t \in 1..MaxTasks : WF_vars(TaskLeaseExpires(t))
    /\ \A w \in Workers : WF_vars(Restart(w))
    /\ \A w \in Workers : WF_vars(Ack(w))
    /\ WF_vars(\E w \in Workers : Poll(w))

SpecQueueFair == SpecQueue /\ QueueFairness

InPending(t) == \E i \in 1..Len(pending) : pending[i] = t

\* The task is leased to a poller that is not working on it (it crashed).
Orphaned(t) ==
    /\ t \in DOMAIN leased
    /\ pollers[leased[t]] # Working(t)

\* The task is leased to a poller that is working on it.
Delivered(t) ==
    /\ t \in DOMAIN leased
    /\ pollers[leased[t]] = Working(t)

C9_State ==
    /\ \A t \in 1..counters.enqueued :
          t \notin acked => (InPending(t) \/ t \in DOMAIN leased)
    /\ \A t \in DOMAIN leased : ~InPending(t) /\ t \notin acked
    /\ \A i, j \in 1..Len(pending) : i # j => pending[i] # pending[j]

C9_Step ==
    \A t \in DOMAIN leased :
        t \in DOMAIN leased' => leased'[t] = leased[t]

\* C9: an un-acked task is always pending or leased, never both and never
\* twice pending; while a task's lease is live the task stays with the
\* poller that dequeued it; and a task whose poller crashed before acking is
\* eventually back in pending and eventually delivered to a working poller.
C9_AtLeastOnce ==
    /\ []C9_State
    /\ [][C9_Step]_vars
    /\ \A t \in 1..MaxTasks : Orphaned(t) ~> InPending(t)
    /\ \A t \in 1..MaxTasks : Orphaned(t) ~> Delivered(t)

C9_Witness ==
    \E t \in DOMAIN leased :
        /\ Delivered(t)
        /\ counters.enqueued = 1
        /\ counters.crashes = 1
        /\ \E w \in Workers : w # leased[t] /\ pollers[w].state = "crashed"

(***************************************************************************)
(* backend/temporal/client.py: start_workflow, called once with each choice *)
(* of its parameters on a client that accepts the start or raises.          *)
(***************************************************************************)
Environments == {"development", "testing"}

WorkflowTypes == {WorkflowType("TestWorkflow", "TestWorkflow"), DummyWorkflow_run}

ArgLists == {<<>>, <<None>>, <<Some("hi")>>}

IdSuffixes == {"", "suffix", "dummy-workflow-test"}

TaskQueues == {"default", "test-queue"}

\* **kwargs, as the set of its (name, value) pairs.
KwargSets == {{}, {<<"arg1", "test">>, <<"kwarg1", "test">>}}

\* client.py 56-64: f"atlas-{env}"
get_workflow_id_prefix(env) == "atlas-" \o env

\* The id with the suffix appended whether or not it is empty.
WorkflowIdOf_AlwaysSuffix(prefix, workflow_type, id_suffix) ==
    prefix \o "-" \o workflow_type.name \o "-" \o id_suffix

\* client.py 88-90: the prefixed id, with "-<id_suffix>" `if id_suffix`.
WorkflowIdOf(prefix, workflow_type, id_suffix) ==
    LET workflow_id == prefix \o "-" \o workflow_type.name
    IN  IF id_suffix # "" THEN workflow_id \o "-" \o id_suffix ELSE workflow_id

\* A call start_workflow(client, workflow_type, *args, id_suffix=...,
\* task_queue=..., **kwargs) made for `request` (0: called directly).
Invocation(request, workflow_type, args, id_suffix, task_queue, kwargs) ==
    [request |-> request, workflow_type |-> workflow_type, args |-> args,
     id_suffix |-> id_suffix, task_queue |-> task_queue, kwargs |-> kwargs,
     pc |-> "scheduled", returned |-> None, error |-> ""]

InitClient ==
    /\ NoEngine
    /\ NoWorker
    /\ NoLease
    /\ NoQueue
    /\ NoApi
    /\ settings \in [env : Environments]
    /\ client = <<>>
    /\ sessions = <<>>
    /\ \E wt \in WorkflowTypes, args \in ArgLists, suffix \in IdSuffixes,
          q \in TaskQueues, kw \in KwargSets :
          invocations = <<Invocation(0, wt, args, suffix, q, kw)>>

\* client.py 67-104: the id is built, client.start_workflow is awaited once
\* and the id returned; an exception of the client propagates.  As a
\* background task of a request it runs after the response was sent.
start_workflow(i) ==
    /\ invocations[i].pc = "scheduled"
    /\ invocations[i].request # 0 =>
          requests[invocations[i].request].pc = "responded"
    /\ \E reachable \in BOOLEAN :
          LET inv == invocations[i]
              workflow_id == WorkflowIdOf(get_workflow_id_prefix(settings.env),
                                          inv.workflow_type, inv.id_suffix)
              started == StartWorkflow(runs, workflow_id, inv.args)
              error == IF reachable THEN started.error ELSE "RPCError"
          IN  /\ client' = Append(client,
                     ClientCall("start_workflow", inv.request, i,
                         StartWorkflowArgs(inv.workflow_type, inv.args,
                             workflow_id, inv.task_queue, inv.kwargs),
                         error))
              /\ runs' = IF reachable THEN started.runs ELSE runs
              /\ invocations' = [invocations EXCEPT ![i] =
                     IF error = ""
                     THEN [inv EXCEPT !.pc = "returned",
                                      !.returned = Some(workflow_id)]
                     ELSE [inv EXCEPT !.pc = "raised", !.error = error]]
    /\ UNCHANGED <<requests, settings, sessions>>
    /\ UNCHANGED <<engineVars, leaseVars, queueVars, workerVars>>

NextClient == \E i \in 1..Len(invocations) : start_workflow(i)

SpecClient == InitClient /\ [][NextClient]_vars

\* The client.start_workflow calls made by invocation i.
StartCallsOf(i) ==
    {c \in 1..Len(client) :
        client[c].method = "start_workflow" /\ client[c].invocation = i}

\* C15: start_workflow calls client.start_workflow exactly once, with id
\* "<prefix>-<workflow_type.__name__>" when id_suffix is empty and
\* "<prefix>-<workflow_type.__name__>-<id_suffix>" otherwise, with the
\* workflow type, task_queue, args and kwargs it was given, and the id it
\* returns is the id of that call.
C15_StartWorkflow ==
    \A i \in 1..Len(invocations) :
        LET inv == invocations[i]
            base == "atlas-" \o settings.env \o "-" \o inv.workflow_type.name
        IN  /\ inv.pc = "scheduled" => StartCallsOf(i) = {}
            /\ inv.pc # "scheduled" =>
                  /\ Cardinality(StartCallsOf(i)) = 1
                  /\ \A c \in StartCallsOf(i) :
                        /\ inv.id_suffix = "" => client[c].arguments.id = base
                        /\ inv.id_suffix # "" =>
                              client[c].arguments.id = base \o "-" \o inv.id_suffix
                        /\ client[c].arguments.workflow = inv.workflow_type
                        /\ client[c].arguments.task_queue = inv.task_queue
                        /\ client[c].arguments.args = inv.args
                        /\ client[c].arguments.kwargs = inv.kwargs
                        /\ inv.pc = "returned" =>
                              /\ client[c].raised = ""
                              /\ inv.returned = Some(client[c].arguments.id)
                        /\ inv.pc = "raised" =>
                              /\ client[c].raised = inv.error
                              /\ inv.error # ""
                              /\ inv.returned = None

C15_Witness ==
    /\ Len(invocations) = 1
    /\ invocations[1].pc = "returned"
    /\ invocations[1].id_suffix = ""
    /\ invocations[1].kwargs # {}
    /\ invocations[1].returned = Some("atlas-testing-TestWorkflow")
    /\ Len(client) = 1

(***************************************************************************)
(* The routes that take the Temporal client as a dependency                 *)
(* (backend/api/routes): POST /workflows/dummy and GET /health, each        *)
(* request resolving get_temporal_client before its handler runs.           *)
(***************************************************************************)
\* What Client.connect does: it returns a client or raises.
ConnectOutcomes == {"ok", "ConnectionError", "RuntimeError"}

\* config.py 32-42: f"{host}:{port}" with the defaults localhost and 7233.
TemporalServerUrl == "localhost:7233"

\* config.py 34
TemporalNamespace == "default"

\* client.py 42-53: one Client.connect; its exception is logged and
\* re-raised as it is.
create_temporal_client(outcome) ==
    [ok |-> outcome = "ok", raised |-> IF outcome = "ok" THEN "" ELSE outcome]

HTTPException(status_code, detail, cause) ==
    [status_code |-> status_code, detail |-> detail, cause |-> cause]

\* get_temporal_client reporting the failure as an internal error.
get_temporal_client_500(created) ==
    IF created.ok
    THEN [ok |-> TRUE, raised |-> None]
    ELSE [ok |-> FALSE,
          raised |-> Some(HTTPException(500, "Temporal service unavailable",
                                        created.raised))]

\* get_temporal_client logging the failure and handing on no client.
get_temporal_client_Swallow(created) == [ok |-> TRUE, raised |-> None]

\* dependencies.py 18-26: the client of create_temporal_client, or
\* HTTPException(503, "Temporal service unavailable") from e.
get_temporal_client(created) ==
    IF created.ok
    THEN [ok |-> TRUE, raised |-> None]
    ELSE [ok |-> FALSE,
          raised |-> Some(HTTPException(503, "Temporal service unavailable",
                                        created.raised))]

\* FastAPI's answer to an HTTPException: its status code and detail.
ExceptionResponse(exc) == HttpResponse(exc.status_code, [detail |-> exc.detail])

\* schemas.py 6-12
HealthResponse(status, version, database, temporal) ==
    [status |-> status, version |-> version, database |-> database,
     temporal |-> temporal]

\* schemas.py 15-20
WorkflowResponse(workflow_id, message, status) ==
    [workflow_id |-> workflow_id, message |-> message, status |-> status]

\* main.py 43: version="0.1.0"
AppVersion == "0.1.0"

\* The overall status as healthy when either service is up.
OverallStatus_Either(database_ok, temporal_ok) ==
    IF database_ok \/ temporal_ok THEN "healthy" ELSE "unhealthy"

\* health/router.py 50
OverallStatus(database_ok, temporal_ok) ==
    IF database_ok /\ temporal_ok THEN "healthy" ELSE "unhealthy"

\* router.py 31 with the message formatted as it is, without `or 'test'`.
AsyncWorkflowId_Raw(message) ==
    "dummy-workflow-" \o (IF message = None THEN "None" ELSE message[1])

\* router.py 31: workflow_id = f"dummy-workflow-{message or 'test'}"
AsyncWorkflowId(message) == "dummy-workflow-" \o OrElse(message, "test")

\* router.py 48-53: except Exception -> HTTPException(500, "Failed to start
\* workflow: ...")
AsyncErrorResponse(error) ==
    HttpResponse(500, [detail |-> "Failed to start workflow: " \o error])

\* config.py 59: env defaults to "development".
DefaultEnvironment == "development"

RouteRequest(endpoint, message) ==
    [endpoint |-> endpoint, message |-> message, pc |-> "received",
     temporal_client |-> 0, error |-> None, response |-> <<>>]

InitRoutes ==
    /\ NoEngine
    /\ NoWorker
    /\ NoLease
    /\ NoQueue
    /\ NoApi
    /\ settings = [env |-> DefaultEnvironment]
    /\ client = <<>>
    /\ invocations = <<>>
    /\ sessions = <<>>

\* What the actions of these routes leave alone.
outsideRoutes == <<engineVars, leaseVars, queueVars, settings, workerVars>>

\* A client posts to /workflows/dummy with an optional message, or gets
\* /health.
ReceiveRoute ==
    /\ Len(requests) < MaxRequests
    /\ \E endpoint \in {"dummy", "health"} :
          \E m \in IF endpoint = "dummy" THEN ApiMessages ELSE {None} :
              requests' = Append(requests, RouteRequest(endpoint, m))
    /\ UNCHANGED <<runs, client, invocations, sessions>>
    /\ UNCHANGED outsideRoutes

\* Depends(get_temporal_client): create_temporal_client() connects with
\* the URL and namespace of the settings; the handler gets the client, or
\* the request is answered with the HTTPException.
ResolveTemporalClient(r) ==
    /\ requests[r].pc = "received"
    /\ \E outcome \in ConnectOutcomes :
          LET created == create_temporal_client(outcome)
              got == get_temporal_client(created)
          IN  /\ client' = Append(client,
                     ClientCall("connect", r, 0,
                         [server_url |-> TemporalServerUrl,
                          namespace |-> TemporalNamespace],
                         IF outcome = "ok" THEN "" ELSE outcome))
              /\ requests' = [requests EXCEPT ![r] =
                     IF got.ok
                     THEN [@ EXCEPT !.pc = "resolved",
                                    !.temporal_client = Len(client) + 1]
                     ELSE [@ EXCEPT !.pc = "responded",
                                    !.error = got.raised,
                                    !.response = ExceptionResponse(got.raised[1])]]
    /\ UNCHANGED <<runs, invocations, sessions>>
    /\ UNCHANGED outsideRoutes

\* router.py 23-53: the id is formatted, start_workflow is added to the
\* background tasks and the "pending" response returned; nothing in the try
\* block awaits the start.
execute_dummy_workflow(r) ==
    /\ requests[r].endpoint = "dummy"
    /\ requests[r].pc = "resolved"
    /\ LET req == requests[r]
           workflow_id == AsyncWorkflowId(req.message)
       IN  /\ invocations' = Append(invocations,
                  Invocation(r, DummyWorkflow_run, <<req.message>>,
                             workflow_id, "atlas-default", {}))
           /\ requests' = [requests EXCEPT ![r] =
                  [req EXCEPT !.pc = "responded",
                              !.response = HttpResponse(200,
                                  WorkflowResponse(workflow_id,
                                      "Workflow started asynchronously",
                                      "pending"))]]
    /\ UNCHANGED <<runs, client, sessions>>
    /\ UNCHANGED outsideRoutes

\* health/router.py 21-60: the database check (async with get_db_session())
\* and the Temporal check (check_health) each raise or not, each inside its
\* own try; the response is built from the two flags.
health_check(r) ==
    /\ requests[r].endpoint = "health"
    /\ requests[r].pc = "resolved"
    /\ \E db_error \in {"", "OperationalError"}, temporal_error \in {"", "RPCError"} :
          LET database_ok == db_error = ""
              temporal_ok == temporal_error = ""
          IN  /\ sessions' = Append(sessions, [request |-> r, raised |-> db_error])
              /\ client' = Append(client,
                     ClientCall("check_health", r, 0, <<>>, temporal_error))
              /\ requests' = [requests EXCEPT ![r] =
                     [@ EXCEPT !.pc = "responded",
                               !.response = HttpResponse(200,
                                   HealthResponse(
                                       OverallStatus(database_ok, temporal_ok),
                                       AppVersion, database_ok, temporal_ok))]]
    /\ UNCHANGED <<runs, invocations>>
    /\ UNCHANGED outsideRoutes

NextRoutes ==
    \/ ReceiveRoute
    \/ \E r \in 1..Len(requests) : ResolveTemporalClient(r)
    \/ \E r \in 1..Len(requests) : execute_dummy_workflow(r)
    \/ \E i \in 1..Len(invocations) : start_workflow(i)
    \/ \E r \in 1..Len(requests) : health_check(r)

SpecRoutes == InitRoutes /\ [][NextRoutes]_vars

\* The start_workflow invocations queued for request r.
InvocationsOf(r) == {i \in 1..Len(invocations) : invocations[i].request = r}

\* The database sessions opened for request r.
SessionsOf(r) == {k \in 1..Len(sessions) : sessions[k].request = r}

\* The requests to `endpoint` whose handler has been entered and has ended.
Handled(endpoint) ==
    {r \in 1..Len(requests) :
        /\ requests[r].endpoint = endpoint
        /\ requests[r].pc = "responded"
        /\ requests[r].temporal_client # 0}

\* C16: POST /workflows/dummy, given its Temporal client, answers 200 with
\* workflow_id "dummy-workflow-<message>" ("dummy-workflow-test" when the
\* message is absent or empty) and status "pending", and makes one
\* start_workflow invocation: never more than one client.start_workflow
\* call, exactly one once the background task has run, with the message as
\* the workflow argument.
C16_AsyncEndpoint ==
    /\ \A r \in Handled("dummy") :
          LET req == requests[r]
              m == IF req.message = None \/ req.message = Some("")
                   THEN "test" ELSE req.message[1]
          IN  /\ req.response = HttpResponse(200,
                     [workflow_id |-> "dummy-workflow-" \o m,
                      message |-> "Workflow started asynchronously",
                      status |-> "pending"])
              /\ Cardinality(InvocationsOf(r)) = 1
              /\ \A i \in InvocationsOf(r) :
                    /\ invocations[i].pc = "scheduled" =>
                          CallsOf("start_workflow", r) = {}
                    /\ invocations[i].pc # "scheduled" =>
                          /\ Cardinality(CallsOf("start_workflow", r)) = 1
                          /\ \A c \in CallsOf("start_workflow", r) :
                                /\ client[c].arguments.args = <<req.message>>
                                /\ client[c].arguments.workflow = DummyWorkflow_run
                                /\ client[c].invocation = i
    /\ \A r \in 1..Len(requests) :
          r \notin Handled("dummy") =>
              (InvocationsOf(r) = {} /\ CallsOf("start_workflow", r) = {})

C16_Witness ==
    \E r \in Handled("dummy") :
        /\ requests[r].message = Some("")
        /\ requests[r].response[1].body.workflow_id = "dummy-workflow-test"
        /\ \E i \in InvocationsOf(r) : invocations[i].pc = "returned"
        /\ \E c \in CallsOf("start_workflow", r) :
              client[c].arguments.args = <<Some("")>>

\* C17: when starting the workflow raises during a POST /workflows/dummy,
\* the request is answered 500 with the detail "Failed to start workflow:
\* <error>" instead of the 200 "pending" response.
C17_StartFailureIs500 ==
    \A i \in 1..Len(invocations) :
        (invocations[i].request # 0 /\ invocations[i].pc = "raised")
        => requests[invocations[i].request].response =
              AsyncErrorResponse(invocations[i].error)

\* C19: health_check, given a Temporal client, answers 200 with a
\* HealthResponse and raises nothing; database is false exactly when the
\* database session raised, temporal is false exactly when check_health
\* raised, both checks are made whatever the other did, and status is
\* "healthy" exactly when both flags are true, else "unhealthy".
C19_HealthCheck ==
    /\ \A r \in Handled("health") :
          LET resp == requests[r].response[1]
          IN  /\ requests[r].error = None
              /\ resp.status = 200
              /\ DOMAIN resp.body = {"status", "version", "database", "temporal"}
              /\ resp.body.version = "0.1.0"
              /\ Cardinality(SessionsOf(r)) = 1
              /\ Cardinality(CallsOf("check_health", r)) = 1
              /\ \A k \in SessionsOf(r) :
                    resp.body.database = FALSE <=> sessions[k].raised # ""
              /\ \A c \in CallsOf("check_health", r) :
                    resp.body.temporal = FALSE <=> client[c].raised # ""
              /\ resp.body.database \in BOOLEAN
              /\ resp.body.temporal \in BOOLEAN
              /\ resp.body.status = "healthy" <=>
                    (resp.body.database /\ resp.body.temporal)
              /\ resp.body.status \in {"healthy", "unhealthy"}
    /\ \A r \in 1..Len(requests) :
          r \notin Handled("health") =>
              (SessionsOf(r) = {} /\ CallsOf("check_health", r) = {})

C19_Witness ==
    \E r \in Handled("health") :
        /\ requests[r].response[1].body.database = FALSE
        /\ requests[r].response[1].body.temporal = TRUE
        /\ requests[r].response[1].body.status = "unhealthy"
        /\ \E c \in CallsOf("check_health", r) : client[c].raised = ""

\* C20: get_temporal_client makes one create_temporal_client call, which
\* makes one Client.connect call; when connect returns, the handler gets
\* that client; when connect raises e, create_temporal_client raises e as
\* it is and get_temporal_client raises HTTPException 503 "Temporal service
\* unavailable" with cause e.
C20_TemporalClientDependency ==
    \A r \in 1..Len(requests) :
        LET req == requests[r]
        IN  /\ req.pc = "received" =>
                  (CallsOf("connect", r) = {} /\ req.temporal_client = 0)
            /\ req.pc # "received" =>
                  /\ Cardinality(CallsOf("connect", r)) = 1
                  /\ \A c \in CallsOf("connect", r) :
                        IF client[c].raised = ""
                        THEN /\ req.temporal_client = c
                             /\ req.error = None
                        ELSE /\ req.temporal_client = 0
                             /\ req.pc = "responded"
                             /\ req.error =
                                   Some([status_code |-> 503,
                                         detail |-> "Temporal service unavailable",
                                         cause |-> client[c].raised])
                             /\ req.response = HttpResponse(503,
                                   [detail |-> "Temporal service unavailable"])

C20_Witness ==
    \E r \in 1..Len(requests) :
        /\ requests[r].pc = "responded"
        /\ requests[r].error # None
        /\ requests[r].error[1].cause = "ConnectionError"
        /\ requests[r].response[1].status = 503
        /\ \E c \in CallsOf("connect", r) : client[c].raised = "ConnectionError"

(***************************************************************************)
(* Worker discovery (backend/workers/worker.py).  discover_workflows and   *)
(* discover_activities import every module of a package and collect the   *)
(* members that carry Temporal's marker.  A Module is what the scan sees   *)
(* of one module: whether importing it raises, and the members            *)
(* inspect.getmembers lists for it, sorted by name; a member is listed     *)
(* whether the module defines it or merely imports it.                     *)
(***************************************************************************)
MaxModules == 2

Module(name, raises, members) ==
    [name |-> name, raises |-> raises, members |-> members]

\* The classes decorated with @workflow.defn.
WorkflowClasses == {"ChainedDummyWorkflow", "DummyWorkflow"}

\* The functions decorated with @activity.defn.
ActivityFunctions == {"echo_message", "get_current_time", "simulate_work"}

\* backend/workflows as pkgutil.iter_modules lists it.
WorkflowsPackage ==
    << Module("backend.workflows.dummy", "",
              <<"ChainedDummyWorkflow", "DummyWorkflow", "RetryPolicy", "timedelta">>),
       Module("backend.workflows.dummy_test", "",
              <<"DummyWorkflow", "Worker", "WorkflowEnvironment">>) >>

\* backend/activities as pkgutil.iter_modules lists it.
ActivitiesPackage ==
    << Module("backend.activities.dummy", "",
              <<"echo_message", "get_current_time", "simulate_work">>),
       Module("backend.activities.dummy_test", "",
              <<"echo_message", "get_current_time", "simulate_work",
                "test_get_current_time_direct">>) >>

\* What importing a module can do: succeed, raise one of the two exceptions
\* the scan catches, or raise another one.
ImportOutcomes == {"", "ImportError", "AttributeError", "SyntaxError"}

Caught(raises) == raises \in {"ImportError", "AttributeError"}

IsMarked(marked, obj) == obj \in marked

\* One iteration of discover_workflows' loop over the modules: the marked
\* members of the module are appended, one append per member listed.
ScanWorkflows(workflow_classes, module) ==
    IF module.raises # ""
    THEN workflow_classes
    ELSE workflow_classes \o
         SelectSeq(module.members, LAMBDA obj : IsMarked(WorkflowClasses, obj))

\* The outcome of a scan: the list built, or the exception that escaped.
Discovered(found, raised) == [found |-> found, raised |-> raised]

RECURSIVE DiscoverWorkflowsFrom(_, _, _)
DiscoverWorkflowsFrom(package, i, workflow_classes) ==
    IF i > Len(package)
    THEN Discovered(workflow_classes, "")
    ELSE IF package[i].raises # "" /\ ~Caught(package[i].raises)
         THEN Discovered(<<>>, package[i].raises)
         ELSE DiscoverWorkflowsFrom(package, i + 1,
                                    ScanWorkflows(workflow_classes, package[i]))

discover_workflows(package) == DiscoverWorkflowsFrom(package, 1, <<>>)

\* One iteration of discover_activities' loop: activities[name] = obj, so a
\* name listed again keeps its place in the dict.
ScanActivities(activities, module) ==
    IF module.raises # ""
    THEN activities
    ELSE activities \o
         SelectSeq(module.members,
                   LAMBDA obj : /\ IsMarked(ActivityFunctions, obj)
                                /\ \A k \in 1..Len(activities) :
                                       activities[k] # obj)

RECURSIVE DiscoverActivitiesFrom(_, _, _)
DiscoverActivitiesFrom(package, i, activities) ==
    IF i > Len(package)
    THEN Discovered(activities, "")
    ELSE IF package[i].raises # "" /\ ~Caught(package[i].raises)
         THEN Discovered(<<>>, package[i].raises)
         ELSE DiscoverActivitiesFrom(package, i + 1,
                                     ScanActivities(activities, package[i]))

discover_activities(package) == DiscoverActivitiesFrom(package, 1, <<>>)

\* The packages the scan is run on: up to MaxModules modules, each importing
\* or failing to import, each listing some of these classes.
MemberLists ==
    { <<>>,
      <<"ChainedDummyWorkflow">>, <<"DummyWorkflow">>, <<"Worker">>,
      <<"ChainedDummyWorkflow", "DummyWorkflow">>,
      <<"ChainedDummyWorkflow", "Worker">>,
      <<"DummyWorkflow", "Worker">>,
      <<"ChainedDummyWorkflow", "DummyWorkflow", "Worker">> }

ModuleNameAt(i) == "backend.workflows.module" \o IntToStr(i)

\* The packages of n modules.
Packages(n) ==
    { [i \in 1..n |-> Module(ModuleNameAt(i), r[i], m[i])] :
        r \in [1..n -> ImportOutcomes], m \in [1..n -> MemberLists] }

Discovery(package) ==
    [package |-> package, scanned |-> 0, workflow_classes |-> <<>>,
     pc |-> "scanning", raised |-> ""]

outsideDiscovery ==
    <<engineVars, apiVars, leaseVars, queueVars, clientVars, worker>>

InitDiscover ==
    /\ NoEngine
    /\ NoApi
    /\ NoLease
    /\ NoQueue
    /\ NoClient
    /\ worker = <<>>
    /\ \E n \in 0..MaxModules :
          discovery \in {Discovery(package) : package \in Packages(n)}

\* discover_workflows imports the next module and scans its members; an
\* exception other than ImportError and AttributeError escapes the scan.
ImportModule ==
    /\ discovery.pc = "scanning"
    /\ discovery.scanned < Len(discovery.package)
    /\ LET module == discovery.package[discovery.scanned + 1]
       IN  IF module.raises # "" /\ ~Caught(module.raises)
           THEN discovery' = [discovery EXCEPT !.pc = "raised",
                                               !.raised = module.raises]
           ELSE discovery' =
                    [discovery EXCEPT
                        !.scanned = @ + 1,
                        !.workflow_classes = ScanWorkflows(@, module)]
    /\ UNCHANGED outsideDiscovery

\* discover_workflows returns the list once every module was visited.
ReturnWorkflows ==
    /\ discovery.pc = "scanning"
    /\ discovery.scanned = Len(discovery.package)
    /\ discovery' = [discovery EXCEPT !.pc = "returned"]
    /\ UNCHANGED outsideDiscovery

NextDiscover == ImportModule \/ ReturnWorkflows

SpecDiscover == InitDiscover /\ [][NextDiscover]_vars

\* The modules of the package whose import succeeded.
Imported(package) == {i \in 1..Len(package) : package[i].raises = ""}

\* The workflow-marked classes listed by some imported module.
MarkedIn(package) ==
    UNION { { package[i].members[k] : k \in 1..Len(package[i].members) } :
            i \in Imported(package) } \cap WorkflowClasses

\* C27: discover_workflows returns every workflow-marked class of the
\* package exactly once: the list it returns holds each marked class listed
\* by an importable module, holds no class twice (also when a module merely
\* imports a class another module defines), and a module whose import raises
\* ImportError or AttributeError is skipped without ending the scan.
C27_EachClassOnce ==
    /\ discovery.pc = "raised" => ~Caught(discovery.raised)
    /\ discovery.pc = "returned" =>
         LET found == discovery.workflow_classes
         IN  /\ { found[k] : k \in 1..Len(found) } = MarkedIn(discovery.package)
             /\ \A a, b \in 1..Len(found) : a # b => found[a] # found[b]

\* The scan of the repository's own package ends with DummyWorkflow twice.
C27_RepositoryPackage ==
    discover_workflows(WorkflowsPackage).found =
        <<"ChainedDummyWorkflow", "DummyWorkflow", "DummyWorkflow">>

(***************************************************************************)
(* The worker process (backend/workers/worker.py).  run_worker creates    *)
(* the Worker, registers a handler for SIGINT and for SIGTERM on the       *)
(* event loop and awaits asyncio.gather(worker.run(),                      *)
(* shutdown_waiter(shutdown_event, worker)).  The event loop runs one      *)
(* callback or task step at a time, so every action below is one such      *)
(* step.  Temporal's Worker is third-party: run() returns once a shutdown  *)
(* was requested (or ends on its own account), shutdown() returns once     *)
(* run() has ended.                                                        *)
(***************************************************************************)
MaxSignals == 3

DEFAULT_TASK_QUEUE == "atlas-default"

Signals == {"SIGINT", "SIGTERM"}

\* create_handler(s) returns lambda: handle_signal(s): the handler keeps the
\* signal it was created for.
create_handler_LateBinding(s) == [reports |-> "SIGTERM"]

create_handler(s) == [reports |-> s]

\* handle_signal logs the signal it is given and sets the shutdown event.
handle_signal(w, sig) ==
    [w EXCEPT !.reported = Append(@, sig), !.shutdown_event = TRUE]

\* The process before run_worker is entered.
WorkerProcess(task_queue) ==
    [pc |-> "scheduled", task_queue |-> task_queue,
     workflows |-> <<>>, activities |-> <<>>,
     handlers |-> <<>>, shutdown_event |-> FALSE,
     run |-> "none", waiter |-> "none", shutdown_calls |-> 0,
     delivered |-> <<>>, reported |-> <<>>]

outsideWorker ==
    <<engineVars, apiVars, leaseVars, queueVars, clientVars, discovery>>

InitWorker ==
    /\ NoEngine
    /\ NoApi
    /\ NoLease
    /\ NoQueue
    /\ NoClient
    /\ discovery = <<>>
    /\ worker = WorkerProcess(DEFAULT_TASK_QUEUE)

\* run_worker up to its await: discover, create the Worker, create the
\* event, register the two handlers, start both awaitables of the gather.
run_worker ==
    /\ worker.pc = "scheduled"
    /\ worker' =
         [worker EXCEPT
            !.workflows = discover_workflows(WorkflowsPackage).found,
            !.activities = discover_activities(ActivitiesPackage).found,
            !.shutdown_event = FALSE,
            !.handlers = [sig \in Signals |-> create_handler(sig)],
            !.run = "running",
            !.waiter = "waiting",
            !.pc = "gathering"]
    /\ UNCHANGED outsideWorker

\* The loop runs the handler registered for a delivered signal.
DeliverSignal(sig) ==
    /\ sig \in DOMAIN worker.handlers
    /\ Len(worker.delivered) < MaxSignals
    /\ worker' = [handle_signal(worker, worker.handlers[sig].reports)
                     EXCEPT !.delivered = Append(@, sig)]
    /\ UNCHANGED outsideWorker

\* shutdown_waiter resumes from shutdown_event.wait() and calls
\* worker.shutdown().
shutdown_waiter_NoWait ==
    /\ worker.waiter = "waiting"
    /\ worker' = [worker EXCEPT !.waiter = "shutting_down",
                                !.shutdown_calls = @ + 1]
    /\ UNCHANGED outsideWorker

shutdown_waiter ==
    /\ worker.waiter = "waiting"
    /\ worker.shutdown_event
    /\ worker' = [worker EXCEPT !.waiter = "shutting_down",
                                !.shutdown_calls = @ + 1]
    /\ UNCHANGED outsideWorker

\* worker.shutdown() returns once run() has ended; shutdown_waiter logs and
\* completes.
ShutdownReturns ==
    /\ worker.waiter = "shutting_down"
    /\ worker.run # "running"
    /\ worker' = [worker EXCEPT !.waiter = "done"]
    /\ UNCHANGED outsideWorker

\* worker.run() returns because a shutdown was requested.
RunStops ==
    /\ worker.run = "running"
    /\ worker.waiter = "shutting_down"
    /\ worker' = [worker EXCEPT !.run = "returned"]
    /\ UNCHANGED outsideWorker

\* worker.run() ends on its own account: it returns, or it raises.
RunEnds ==
    /\ worker.run = "running"
    /\ \E outcome \in {"returned", "raised"} :
         worker' = [worker EXCEPT !.run = outcome]
    /\ UNCHANGED outsideWorker

\* asyncio.gather: the await ends with the first exception, or when both
\* awaitables have returned; it cancels nothing.
GatherReturns ==
    /\ worker.pc = "gathering"
    /\ worker.run = "returned"
    /\ worker.waiter = "done"
    /\ worker' = [worker EXCEPT !.pc = "returned"]
    /\ UNCHANGED outsideWorker

GatherRaises ==
    /\ worker.pc = "gathering"
    /\ worker.run = "raised"
    /\ worker' = [worker EXCEPT !.pc = "raised"]
    /\ UNCHANGED outsideWorker

NextWorker ==
    \/ run_worker
    \/ \E sig \in Signals : DeliverSignal(sig)
    \/ shutdown_waiter
    \/ ShutdownReturns
    \/ RunStops
    \/ RunEnds
    \/ GatherReturns
    \/ GatherRaises

SpecWorker == InitWorker /\ [][NextWorker]_vars

\* The event loop runs every ready task, and Temporal's Worker stops once
\* asked to; nothing obliges a signal to arrive or run() to end unasked.
SpecWorkerFair ==
    /\ SpecWorker
    /\ WF_vars(run_worker)
    /\ WF_vars(shutdown_waiter)
    /\ WF_vars(ShutdownReturns)
    /\ WF_vars(RunStops)
    /\ WF_vars(GatherReturns)
    /\ WF_vars(GatherRaises)

\* C21: shutdown_waiter never calls worker.shutdown() before the shutdown
\* event is set, and once the event is set it calls worker.shutdown()
\* exactly once and then completes.
C21_ShutdownWaiter ==
    /\ [](worker.shutdown_calls > 0 => worker.shutdown_event)
    /\ [](worker.shutdown_calls <= 1)
    /\ [](worker.waiter \in {"shutting_down", "done"} <=>
              worker.shutdown_calls = 1)
    /\ [][worker.shutdown_calls' # worker.shutdown_calls =>
              /\ worker.shutdown_event
              /\ worker.waiter = "waiting"
              /\ worker.shutdown_calls' = 1]_vars
    /\ (worker.waiter = "waiting" /\ worker.shutdown_event) ~>
           (worker.waiter = "done" /\ worker.shutdown_calls = 1)

C21_Witness ==
    /\ worker.waiter = "done"
    /\ worker.shutdown_event
    /\ worker.shutdown_calls = 1

\* C22: run_worker registers a handler for SIGINT and one for SIGTERM, each
\* reporting its own signal, and runs worker.run() together with
\* shutdown_waiter; after a signal was delivered, once or several times,
\* worker.shutdown() is eventually called, it is never called twice, and
\* run_worker returns once worker.run() has returned, not before.
C22_GracefulShutdown ==
    /\ [](worker.pc # "scheduled" =>
              /\ DOMAIN worker.handlers = Signals
              /\ \A sig \in Signals : worker.handlers[sig].reports = sig
              /\ worker.run # "none"
              /\ worker.waiter # "none")
    /\ [](worker.reported = worker.delivered)
    /\ [](worker.delivered # <<>> => worker.shutdown_event)
    /\ [](worker.shutdown_calls <= 1)
    /\ [](worker.pc = "returned" => worker.run = "returned")
    /\ (worker.delivered # <<>>) ~> (worker.shutdown_calls = 1)
    /\ (worker.delivered # <<>> /\ worker.run = "returned") ~>
           (worker.pc = "returned")

C22_Witness ==
    /\ worker.pc = "returned"
    /\ worker.delivered = <<"SIGINT", "SIGTERM", "SIGINT">>
    /\ worker.reported = worker.delivered
    /\ worker.shutdown_calls = 1

\* C28: run_worker terminates whenever worker.run() finishes: when
\* worker.run() has returned or raised and no signal was delivered,
\* run_worker returns or raises as well and no shutdown_waiter is left
\* waiting on the shutdown event.
C28_TerminatesWithRun ==
    [](worker.run \in {"returned", "raised"} /\ worker.delivered = <<>> =>
          <>(/\ worker.pc \in {"returned", "raised"}
             /\ worker.waiter # "waiting"))

\* The same for the exception path alone, as a property of states: once
\* run_worker has raised, no shutdown_waiter still waits.
C28_NoWaiterLeft ==
    worker.pc = "raised" => worker.waiter # "waiting"

(***************************************************************************)
(* ChainedDummyWorkflow under the engine.  The run is started with a list  *)
(* of messages; each workflow task runs ChainedDummyWorkflow.run up to its *)
(* next execute_child_workflow, whose child is dispatched as a task of the *)
(* engine and completes with DummyWorkflow's result or fails.              *)
(***************************************************************************)
MaxMessages == 2

MaxChainTime == 6

ChainMessages == {"", "hi"}

MessageLists == UNION { [1..n -> ChainMessages] : n \in 0..MaxMessages }

InitChained ==
    /\ NoApi
    /\ NoWorker
    /\ NoClient
    /\ NoLease
    /\ NoQueue
    /\ \E id \in WorkflowIds, messages \in MessageLists :
          /\ wf = StartedRun(id, messages)
          /\ journal = StartedJournal(id, messages)
    /\ commands = <<>>
    /\ task = NoTask
    /\ handler = <<>>
    /\ now = 0

\* A workflow task of the parent: the loop body up to the next await, the
\* return after the last child, or the child's error leaving run().
ChainedWorkflowTask ==
    /\ wf.status = "RUNNING"
    /\ task.state = "none"
    /\ LET cmd == ChainedDummyWorkflowRun(wf.workflow_id, wf.input,
                                          ResultsOf(journal), now)
       IN  /\ commands' = Append(commands, cmd)
           /\ CASE cmd.kind = "StartChildWorkflow" ->
                    /\ journal' = JournalAppend(journal, "ChildWorkflowStarted",
                                      [workflow |-> cmd.workflow,
                                       input |-> cmd.input, id |-> cmd.id])
                    /\ task' = NewTask(cmd, now)
                    /\ wf' = wf
                [] cmd.kind = "Complete" ->
                    /\ journal' = JournalAppend(journal, "WorkflowCompleted", cmd.value)
                    /\ wf' = [wf EXCEPT !.status = "COMPLETED", !.result = Some(cmd.value)]
                    /\ task' = task
                [] cmd.kind = "Fail" ->
                    /\ journal' = JournalAppend(journal, "WorkflowFailed", cmd.error)
                    /\ wf' = [wf EXCEPT !.status = "FAILED", !.result = Some(cmd.error)]
                    /\ task' = task
    /\ UNCHANGED <<handler, now>>
    /\ UNCHANGED outsideEngine

\* The child run completes: ChildWorkflowCompleted carries its result.
ChildCompletes ==
    /\ wf.status = "RUNNING"
    /\ task.state = "running"
    /\ task.kind = "child"
    /\ now >= task.starts[task.attempt] + HandlerDuration(task.activity, task.input)
    /\ journal' = JournalAppend(journal, CompletedKind(task),
                      Ok(TaskResult(task, now), task.attempt))
    /\ task' = NoTask
    /\ UNCHANGED <<wf, commands, handler, now>>
    /\ UNCHANGED outsideEngine

\* The child run fails: its retry policy decides between another run of the
\* child and a terminal ChildWorkflowFailed event.
ChildFails ==
    /\ wf.status = "RUNNING"
    /\ task.state = "running"
    /\ task.kind = "child"
    /\ \E retryable \in BOOLEAN :
         LET d == NextDelay(task.retry_policy, task.attempt,
                            now - task.starts[1], retryable)
         IN  IF d.give_up
             THEN /\ journal' = JournalAppend(journal, FailedKind(task),
                                    Err([message |-> "ChildWorkflowError",
                                         workflow |-> task.activity,
                                         id |-> task.id,
                                         retryable |-> retryable], task.attempt))
                  /\ task' = NoTask
             ELSE /\ journal' = journal
                  /\ task' = [task EXCEPT !.state = "pending",
                                          !.attempt = @ + 1,
                                          !.not_before = now + d.delay]
    /\ UNCHANGED <<wf, commands, handler, now>>
    /\ UNCHANGED outsideEngine

TickChained ==
    /\ now < MaxChainTime
    /\ now' = now + 1
    /\ UNCHANGED <<wf, journal, commands, task, handler>>
    /\ UNCHANGED outsideEngine

NextChained ==
    \/ ChainedWorkflowTask
    \/ StartAttempt
    \/ ChildCompletes
    \/ ChildFails
    \/ TickChained

SpecChained == InitChained /\ [][NextChained]_vars

\* The positions in history H of the events of one kind, in order.
EventsOf(H, kind) == SelectSeq(H, LAMBDA e : e.kind = kind)

\* How many events of one kind history H holds before position i.
CountBefore(H, kind, i) == Cardinality({j \in 1..(i - 1) : H[j].kind = kind})

\* The id dummy.py gives the child of index i (from 0) of a parent.
ChildId(parent, i) == parent \o "-child-" \o IntToStr(i)

\* C23: ChainedDummyWorkflow runs one child DummyWorkflow per message,
\* strictly in sequence: child i+1 is started only after child i has
\* completed; child i has id "<parent workflow_id>-child-<i>", so the ids of
\* one parent differ pairwise; on success the returned list is as long as
\* messages and its i-th element is the result of the child run for the i-th
\* message; an empty list completes with an empty list and starts no child.
C23_ChildrenInSequence ==
    LET started == EventsOf(journal, "ChildWorkflowStarted")
        completed == EventsOf(journal, "ChildWorkflowCompleted")
    IN  /\ Len(started) <= Len(wf.input)
        /\ \A k \in 1..Len(started) :
              /\ started[k].payload.id = ChildId(wf.workflow_id, k - 1)
              /\ started[k].payload.workflow = "DummyWorkflow"
              /\ started[k].payload.input = <<Some(wf.input[k])>>
        /\ \A a, b \in 1..Len(started) :
              a # b => started[a].payload.id # started[b].payload.id
        /\ \A i \in 1..Len(journal) :
              journal[i].kind = "ChildWorkflowStarted" =>
                 /\ CountBefore(journal, "ChildWorkflowCompleted", i)
                        = CountBefore(journal, "ChildWorkflowStarted", i)
                 /\ CountBefore(journal, "ChildWorkflowFailed", i) = 0
        /\ wf.status = "COMPLETED" =>
              /\ Len(wf.result[1]) = Len(wf.input)
              /\ Len(completed) = Len(wf.input)
              /\ \A k \in 1..Len(wf.input) :
                    /\ wf.result[1][k] = completed[k].payload.value
                    /\ wf.result[1][k].workflow_id = ChildId(wf.workflow_id, k - 1)
                    /\ wf.result[1][k].echo_result =
                          IF wf.input[k] # ""
                          THEN Some(echo_message(wf.input[k])) ELSE None
        /\ wf.input = <<>> =>
              /\ started = <<>>
              /\ wf.status \in {"RUNNING", "COMPLETED"}
              /\ wf.status = "COMPLETED" => wf.result = Some(<<>>)

C23_Witness ==
    /\ wf.status = "COMPLETED"
    /\ Len(wf.input) = 2
    /\ Len(wf.result[1]) = 2
    /\ Len(EventsOf(journal, "ChildWorkflowCompleted")) = 2

C23_WitnessEmpty ==
    /\ wf.status = "COMPLETED"
    /\ wf.input = <<>>
    /\ wf.result = Some(<<>>)

\* The terminal failures of children recorded in history H.
FailedChildren(H) == {i \in 1..Len(H) : H[i].kind = "ChildWorkflowFailed"}

\* C26: if child i fails (maximum_attempts=1 allows no second run of it),
\* the parent run fails with that child's error, no child of a greater index
\* is ever started, and the results of the children before it are not
\* returned.
C26_State ==
    /\ \A i \in FailedChildren(journal) :
          /\ journal[i].payload.attempt = 1
          /\ journal[i].payload.error.id =
                 ChildId(wf.workflow_id,
                         CountBefore(journal, "ChildWorkflowStarted", i) - 1)
          /\ \A j \in (i + 1)..Len(journal) :
                 journal[j].kind \notin {"ChildWorkflowStarted",
                                         "ChildWorkflowCompleted",
                                         "WorkflowCompleted"}
          /\ wf.status \in {"RUNNING", "FAILED"}
          /\ wf.status = "FAILED" => wf.result = Some(journal[i].payload.error)
          /\ wf.status = "RUNNING" => i = Len(journal) /\ task = NoTask
    /\ wf.status = "FAILED" => FailedChildren(journal) # {}
    /\ task.state # "none" => task.attempt = 1

\* The only step the parent takes after a child's failure is to fail.
C26_Step ==
    FailedChildren(journal) # {} /\ wf.status = "RUNNING" /\ journal' # journal
        => wf'.status = "FAILED"

C26_ChildFailureFailsParent == []C26_State /\ [][C26_Step]_vars

C26_Witness ==
    /\ wf.status = "FAILED"
    /\ Len(wf.input) = 2
    /\ Len(EventsOf(journal, "ChildWorkflowCompleted")) = 1
    /\ \E i \in FailedChildren(journal) :
          journal[i].payload.error.id = ChildId(wf.workflow_id, 1)

\* C24: the workflow_id in the response of POST /workflows/dummy is the id
\* under which the background task starts the workflow on the Temporal
\* client, the id a caller would use to look the run up.
C24_ResponseIdIsStartedId ==
    \A r \in Handled("dummy") :
        \A c \in CallsOf("start_workflow", r) :
            client[c].arguments.id = requests[r].response[1].body.workflow_id

\* What the two ids are for ?message=hi in the default environment.
C24_Divergence ==
    \A r \in Handled("dummy") :
        requests[r].message = Some("hi") =>
            /\ requests[r].response[1].body.workflow_id = "dummy-workflow-hi"
            /\ \A c \in CallsOf("start_workflow", r) :
                  client[c].arguments.id =
                      "atlas-development-run-dummy-workflow-hi"

\* The activities of the ActivityScheduled events of history H, in order.
ScheduledOrder(H) ==
    LET s == SelectSeq(H, LAMBDA e : e.kind = "ActivityScheduled")
    IN  [k \in 1..Len(s) |-> s[k].payload.activity]

IsPrefix(s, t) == Len(s) <= Len(t) /\ \A k \in 1..Len(s) : s[k] = t[k]

\* C25: within one DummyWorkflow run the activities are scheduled one at a
\* time in the order get_current_time, echo_message, simulate_work: each is
\* scheduled only after the one before it completed; echo_message is
\* scheduled iff the message is non-empty (None and "" both skip it and
\* leave echo_result = None); a terminal failure of an activity fails the
\* run without scheduling the later activities.
C25_State ==
    LET nonEmpty == wf.input \notin {None, Some("")}
        order == IF nonEmpty
                 THEN <<"get_current_time", "echo_message", "simulate_work">>
                 ELSE <<"get_current_time", "simulate_work">>
    IN  /\ IsPrefix(ScheduledOrder(journal), order)
        /\ \A i \in 1..Len(journal) :
              /\ journal[i].kind = "ActivityScheduled" /\ i > 2 =>
                    journal[i - 1].kind = "ActivityCompleted"
              /\ journal[i].kind = "ActivityScheduled" /\ i < Len(journal) =>
                    journal[i + 1].kind \in {"ActivityCompleted", "ActivityFailed"}
              /\ journal[i].kind = "ActivityFailed" =>
                    /\ \A j \in (i + 1)..Len(journal) :
                          journal[j].kind = "WorkflowFailed"
                    /\ wf.status \in {"RUNNING", "FAILED"}
                    /\ wf.status = "RUNNING" => i = Len(journal)
        /\ task.state # "none" =>
              /\ journal[Len(journal)].kind = "ActivityScheduled"
              /\ journal[Len(journal)].payload.activity = task.activity
        /\ wf.status = "COMPLETED" =>
              /\ ScheduledOrder(journal) = order
              /\ wf.result[1].echo_result = None <=> ~nonEmpty

\* After a terminal activity failure the run's only step is to fail.
C25_Step ==
    /\ wf.status = "RUNNING"
    /\ journal # <<>>
    /\ journal[Len(journal)].kind = "ActivityFailed"
    /\ journal' # journal
    => wf'.status = "FAILED"

C25_ActivitiesInOrder == []C25_State /\ [][C25_Step]_vars

C25_Witness ==
    /\ wf.status = "COMPLETED"
    /\ wf.input = Some("")
    /\ ScheduledOrder(journal) = <<"get_current_time", "simulate_work">>
    /\ wf.result[1].echo_result = None

C25_WitnessFailure ==
    /\ wf.status = "FAILED"
    /\ wf.input = Some("hi")
    /\ ScheduledOrder(journal) = <<"get_current_time", "echo_message">>

\* C29: if creating the Temporal client fails, a request to the health
\* endpoint is answered 503 "Temporal service unavailable" by the
\* get_temporal_client dependency and health_check is never entered: no
\* database check is made and no HealthResponse produced.  temporal = false
\* in a HealthResponse therefore arises only when the client was created and
\* check_health raised.
C29_HealthWithoutClient ==
    \A r \in 1..Len(requests) :
        requests[r].endpoint = "health" =>
            /\ \A c \in CallsOf("connect", r) :
                  client[c].raised # "" =>
                      /\ requests[r].pc = "responded"
                      /\ requests[r].response = HttpResponse(503,
                             [detail |-> "Temporal service unavailable"])
                      /\ SessionsOf(r) = {}
                      /\ CallsOf("check_health", r) = {}
            /\ \A k \in 1..Len(requests[r].response) :
                  LET body == requests[r].response[k].body
                  IN  "temporal" \in DOMAIN body /\ body.temporal = FALSE =>
                          /\ \E c \in CallsOf("connect", r) :
                                client[c].raised = ""
                          /\ \E c \in CallsOf("check_health", r) :
                                client[c].raised # ""

C29_Witness ==
    \E r \in 1..Len(requests) :
        /\ requests[r].endpoint = "health"
        /\ requests[r].pc = "responded"
        /\ requests[r].response[1].status = 503
        /\ SessionsOf(r) = {}
        /\ \E c \in CallsOf("connect", r) : client[c].raised = "RuntimeError"

C29_WitnessTemporalDown ==
    \E r \in Handled("health") :
        /\ requests[r].response[1].body.temporal = FALSE
        /\ \E c \in CallsOf("check_health", r) : client[c].raised = "RPCError"

(***************************************************************************)
(* backend/db/connection.py: get_db_session, the async context manager    *)
(* around one AsyncSession.  The body of the `async with` ends by          *)
(* returning, by raising an Exception, or by raising a BaseException that  *)
(* is no Exception (asyncio.CancelledError when the task is cancelled at   *)
(* an await of the body); rollback() and close() talk to the database and  *)
(* can raise themselves.                                                   *)
(***************************************************************************)
MaxSessions == 2

\* How the body of the `async with` ends; "" is a normal end.
BodyOutcomes == {"", "ValueError", "CancelledError"}

\* What session.rollback() and session.close() raise; "" is a return.
RollbackOutcomes == {"", "InterfaceError"}

CloseOutcomes == {"", "OperationalError"}

\* `except Exception` catching every BaseException as well.
ExceptException_Bare(exc) == exc # ""

\* `except Exception`: CancelledError derives from BaseException only.
ExceptException(exc) == exc # "" /\ exc # "CancelledError"

\* session = async_session_factory(), suspended at the yield.
DbSession(request) ==
    [request |-> request, pc |-> "body", body |-> "", calls |-> <<>>,
     propagating |-> "", raised |-> ""]

SessionCall(op, raised) == [op |-> op, raised |-> raised]

outsideDb ==
    <<engineVars, apiVars, leaseVars, queueVars, workerVars,
      settings, client, invocations>>

InitDb ==
    /\ NoEngine
    /\ NoWorker
    /\ NoApi
    /\ NoLease
    /\ NoQueue
    /\ settings = <<>>
    /\ client = <<>>
    /\ invocations = <<>>
    /\ sessions = <<>>

\* async with get_db_session() as session: the factory is called and the
\* session yielded to the body.
EnterSession ==
    /\ Len(sessions) < MaxSessions
    /\ sessions' = Append(sessions, DbSession(0))
    /\ UNCHANGED outsideDb

\* The body ends; an Exception is taken by the except clause, anything
\* else goes straight to the finally clause.
BodyEnds(k) ==
    /\ sessions[k].pc = "body"
    /\ \E outcome \in BodyOutcomes :
         sessions' = [sessions EXCEPT ![k] =
             [@ EXCEPT !.body = outcome,
                       !.propagating = outcome,
                       !.pc = IF ExceptException(outcome)
                              THEN "except" ELSE "finally"]]
    /\ UNCHANGED outsideDb

\* except Exception: log, await session.rollback(), raise.
Rollback(k) ==
    /\ sessions[k].pc = "except"
    /\ \E raised \in RollbackOutcomes :
         sessions' = [sessions EXCEPT ![k] =
             [@ EXCEPT !.calls = Append(@, SessionCall("rollback", raised)),
                       !.propagating = IF raised = "" THEN @ ELSE raised,
                       !.pc = "finally"]]
    /\ UNCHANGED outsideDb

\* finally: await session.close(); the context manager is left with the
\* exception then propagating, if any.
Close(k) ==
    /\ sessions[k].pc = "finally"
    /\ \E raised \in CloseOutcomes :
         sessions' = [sessions EXCEPT ![k] =
             [@ EXCEPT !.calls = Append(@, SessionCall("close", raised)),
                       !.propagating = IF raised = "" THEN @ ELSE raised,
                       !.raised = IF raised = ""
                                  THEN sessions[k].propagating ELSE raised,
                       !.pc = "exited"]]
    /\ UNCHANGED outsideDb

NextDb ==
    \/ EnterSession
    \/ \E k \in 1..Len(sessions) : BodyEnds(k) \/ Rollback(k) \/ Close(k)

SpecDb == InitDb /\ [][NextDb]_vars

\* The operations called on session k, in order.
OpsOf(k) == [c \in 1..Len(sessions[k].calls) |-> sessions[k].calls[c].op]

\* No call made on session k raised.
CallsReturned(k) ==
    \A c \in 1..Len(sessions[k].calls) : sessions[k].calls[c].raised = ""

Exited == {k \in 1..Len(sessions) : sessions[k].pc = "exited"}

\* C30 as stated: get_db_session closes the session exactly once on every
\* exit path; when the body completes normally the session is closed
\* without rollback; when the body raises, the session is rolled back
\* first, then closed, and the original exception propagates unchanged.
C30_Original ==
    /\ \A k \in 1..Len(sessions) :
          Cardinality({c \in 1..Len(sessions[k].calls) :
                          sessions[k].calls[c].op = "close"}) <= 1
    /\ \A k \in Exited :
          IF sessions[k].body = ""
          THEN OpsOf(k) = <<"close">>
          ELSE /\ OpsOf(k) = <<"rollback", "close">>
               /\ sessions[k].raised = sessions[k].body

\* C30 as the code has it: the session is closed exactly once on every
\* exit path, close being the last call; a body that completes normally is
\* followed by close without rollback; a body that raises an Exception is
\* followed by rollback, then close, and that exception propagates unchanged
\* when rollback and close return; a body left by a BaseException that is
\* no Exception (CancelledError) is followed by close without rollback, and
\* that exception propagates when close returns.  An exception raised by
\* rollback or close replaces the one propagating.
C30_CloseOnEveryPath ==
    /\ \A k \in 1..Len(sessions) :
          Cardinality({c \in 1..Len(sessions[k].calls) :
                          sessions[k].calls[c].op = "close"}) <= 1
    /\ \A k \in Exited :
          LET s == sessions[k]
          IN  /\ s.calls[Len(s.calls)].op = "close"
              /\ s.body = "" =>
                    /\ OpsOf(k) = <<"close">>
                    /\ s.raised = s.calls[1].raised
              /\ s.body = "ValueError" =>
                    /\ OpsOf(k) = <<"rollback", "close">>
                    /\ CallsReturned(k) => s.raised = s.body
              /\ s.body = "CancelledError" =>
                    /\ OpsOf(k) = <<"close">>
                    /\ CallsReturned(k) => s.raised = s.body
              /\ ~CallsReturned(k) =>
                    s.raised \in {"InterfaceError", "OperationalError"}

C30_Witness ==
    \E k \in Exited :
        /\ sessions[k].body = "ValueError"
        /\ OpsOf(k) = <<"rollback", "close">>
        /\ CallsReturned(k)
        /\ sessions[k].raised = "ValueError"

C30_WitnessCancelled ==
    \E k \in Exited :
        /\ sessions[k].body = "CancelledError"
        /\ OpsOf(k) = <<"close">>
        /\ sessions[k].raised = "CancelledError"

====
